---------------------------- MODULE Spec2Model ----------------------------
(***************************************************************************)
(* A model of autoRS: the cumulative integration utility                   *)
(* (autoRS/core/utils.py), the response-spectrum engine with its           *)
(* frequency grid (autoRS/spectrum.py), the command-line application       *)
(* (autoRS/__init__.py), the table of floats (autoRS/core/table.py) and    *)
(* the motion history built on it (autoRS/core/motion.py).                 *)
(*                                                                         *)
(* Numbers.  The integrator is modelled over exact rationals <<n, d>>.     *)
(* The frequency grid is modelled in IEEE-754 binary64 arithmetic with     *)
(* round-to-nearest-even, because the length and the elements of           *)
(* np.arange are decided by rounding: a double is held as the natural      *)
(* number x * 2^60, written in limbs of 12 bits (least significant first). *)
(***************************************************************************)
EXTENDS Integers, Sequences, FiniteSets, TLC

VARIABLES
    ci_pc,      \* "idle" | "returned": position of the cumulative_integral caller
    ci_in,      \* the arguments of the last cumulative_integral call
    ci_out,     \* what that call produced: an array or an exception
    pc,         \* position inside get_asme_frequencies / get_default_frequencies / response_spectrum
    entry,      \* which public function was called: "none" | "asme" | "default" | "rs"
    args,       \* arguments of the spectrum call in progress
    frqs,       \* the frequency array under construction / returned
    loop,       \* local variables of the loop in progress
    rs,         \* the solver's response array
    ret,        \* the value returned to the caller of the spectrum functions
    stdout,     \* number of messages printed to the standard output
    settings,   \* autoRS.settings, the settings of the application
    fs,         \* the working directory of the application
    app_pc,     \* "idle" | "returned": position of the caller of the application
    app_call,   \* the last call into autoRS/__init__.py
    app_ret,    \* what that call returned or raised, and what it printed
    table,      \* the FloatTable under test: _data, _index, _column_dict, _index_name
    _invalid_column_names,  \* FloatTable._invalid_column_names, the set of the class
    tb_call,    \* the last call on the table, with the table as it was before
    tb_ret,     \* what that call returned or raised
    tb_added,   \* the names of the columns in the order they were added
    tb_clean,   \* every call on the table since its construction succeeded
    mh,         \* None, or Some(the MotionHistory under test: _table, _last_updated)
    mh_call,    \* the last call on the MotionHistory, with the object as it was before
    mh_ret      \* what that call returned or raised

vars == <<ci_pc, ci_in, ci_out, pc, entry, args, frqs, loop, rs, ret, stdout,
          settings, fs, app_pc, app_call, app_ret,
          table, _invalid_column_names, tb_call, tb_ret, tb_added, tb_clean,
          mh, mh_call, mh_ret>>
ci_vars == <<ci_pc, ci_in, ci_out>>
sp_vars == <<pc, entry, args, frqs, loop, rs, ret, stdout>>
app_vars == <<settings, fs, app_pc, app_call, app_ret>>
tb_vars == <<table, _invalid_column_names, tb_call, tb_ret, tb_added, tb_clean>>
mh_vars == <<mh, mh_call, mh_ret>>
\* what a step of one part of the library leaves alone
not_ci_vars == <<sp_vars, app_vars, tb_vars, mh_vars>>
not_sp_vars == <<ci_vars, app_vars, tb_vars, mh_vars>>
not_app_vars == <<ci_vars, sp_vars, tb_vars, mh_vars>>
not_tb_vars == <<ci_vars, sp_vars, app_vars, mh_vars>>
\* a MotionHistory shares the set of the class FloatTable with the tables
not_mh_vars == <<ci_vars, sp_vars, app_vars, table, tb_call, tb_ret, tb_added, tb_clean>>

(***************************************************************************)
(* Natural numbers of arbitrary size, in limbs of 12 bits.                 *)
(***************************************************************************)
Base == 2^12

RECURSIVE BTrim(_)
BTrim(s) ==
    IF s = <<>> THEN s
    ELSE IF s[Len(s)] = 0 THEN BTrim(SubSeq(s, 1, Len(s) - 1)) ELSE s

RECURSIVE BFromInt(_)
BFromInt(n) == IF n = 0 THEN <<>> ELSE <<n % Base>> \o BFromInt(n \div Base)

RECURSIVE BToInt(_)
BToInt(s) == IF s = <<>> THEN 0 ELSE s[1] + Base * BToInt(Tail(s))

RECURSIVE BMulC(_, _, _)
BMulC(s, m, c) ==
    IF s = <<>> THEN BFromInt(c)
    ELSE LET t == s[1] * m + c IN <<t % Base>> \o BMulC(Tail(s), m, t \div Base)

\* s * m for a machine integer 0 <= m < 2^19
BMulSmall(s, m) == BTrim(BMulC(s, m, 0))

RECURSIVE BAddC(_, _, _)
BAddC(a, b, c) ==
    IF a = <<>> /\ b = <<>> THEN BFromInt(c)
    ELSE LET x == IF a = <<>> THEN 0 ELSE a[1]
             y == IF b = <<>> THEN 0 ELSE b[1]
             t == x + y + c
         IN <<t % Base>> \o BAddC(IF a = <<>> THEN a ELSE Tail(a),
                                  IF b = <<>> THEN b ELSE Tail(b), t \div Base)

BAdd(a, b) == BAddC(a, b, 0)

RECURSIVE BSubC(_, _, _)
BSubC(a, b, c) ==
    IF a = <<>> THEN <<>>
    ELSE LET y == IF b = <<>> THEN 0 ELSE b[1]
             t == a[1] - y - c
         IN <<t % Base>> \o BSubC(Tail(a), IF b = <<>> THEN b ELSE Tail(b),
                                  IF t < 0 THEN 1 ELSE 0)

\* a - b for a >= b
BSub(a, b) == BTrim(BSubC(a, b, 0))

RECURSIVE BCmpAt(_, _, _)
BCmpAt(a, b, i) ==
    IF i = 0 THEN 0
    ELSE IF a[i] < b[i] THEN -1
    ELSE IF a[i] > b[i] THEN 1
    ELSE BCmpAt(a, b, i - 1)

\* -1, 0, 1 as a < b, a = b, a > b
BCmp(a, b) ==
    IF Len(a) < Len(b) THEN -1
    ELSE IF Len(a) > Len(b) THEN 1
    ELSE BCmpAt(a, b, Len(a))

BLess(a, b) == BCmp(a, b) < 0
BLeq(a, b) == BCmp(a, b) <= 0

RECURSIVE IntBitLen(_)
IntBitLen(n) == IF n = 0 THEN 0 ELSE 1 + IntBitLen(n \div 2)

BitLen(s) == IF s = <<>> THEN 0 ELSE 12 * (Len(s) - 1) + IntBitLen(s[Len(s)])

BShiftLeft(s, r) ==
    IF s = <<>> THEN s
    ELSE [i \in 1..(r \div 12) |-> 0] \o BMulSmall(s, 2^(r % 12))

BShiftRight(s, r) ==
    LET q == r \div 12
        b == r % 12
        t == IF q >= Len(s) THEN <<>> ELSE SubSeq(s, q + 1, Len(s))
    IN BTrim([i \in 1..Len(t) |->
                (t[i] \div 2^b)
                + (IF i < Len(t) THEN (t[i + 1] % 2^b) * 2^(12 - b) ELSE 0)])

BBit(s, i) ==
    IF i \div 12 >= Len(s) THEN 0 ELSE (s[(i \div 12) + 1] \div 2^(i % 12)) % 2

BOdd(s) == s # <<>> /\ s[1] % 2 = 1

\* One step of binary long division: the pair <<quotient, remainder>> p
\* after the next numerator bit has been brought down.
BDivBit(p, d, bit) ==
    IF p[2] = <<>> /\ bit = 0 THEN <<BMulSmall(p[1], 2), <<>> >>
    ELSE LET r2 == BAdd(BMulSmall(p[2], 2), BFromInt(bit))
         IN IF BLeq(d, r2)
            THEN <<BAdd(BMulSmall(p[1], 2), <<1>>), BSub(r2, d)>>
            ELSE <<BMulSmall(p[1], 2), r2>>

\* bring down the bits 11..j of one limb
RECURSIVE BDivLimb(_, _, _, _)
BDivLimb(p, d, limb, j) ==
    IF j = 12 THEN p
    ELSE BDivBit(BDivLimb(p, d, limb, j + 1), d, (limb \div 2^j) % 2)

\* <<floor(n' / d), n' mod d>> for n' = the limbs k.. of n
RECURSIVE BDivFrom(_, _, _)
BDivFrom(n, d, k) ==
    IF k > Len(n) THEN << <<>>, <<>> >>
    ELSE LET p == BDivFrom(n, d, k + 1)
         IN IF p[2] = <<>> /\ n[k] = 0
            THEN <<BShiftLeft(p[1], 12), <<>> >>
            ELSE BDivLimb(p, d, n[k], 0)

\* floor(n / d) and whether a remainder is left
BDivMod(n, d) ==
    IF d = <<>> THEN << <<>>, FALSE >>
    ELSE LET p == BDivFrom(n, d, 1) IN <<p[1], p[2] # <<>> >>

RECURSIVE BPowSmall(_, _, _)
\* s * m^e
BPowSmall(s, m, e) == IF e = 0 THEN s ELSE BMulSmall(BPowSmall(s, m, e - 1), m)


(***************************************************************************)
(* IEEE-754 binary64 values x > 0, held as the natural number x * 2^60.    *)
(* Every operation computes the exact result and rounds it to 53           *)
(* significant bits, ties to even, as the hardware does.  All values the   *)
(* grid needs lie in [2^-4, 2^10], where x * 2^60 is a whole number.       *)
(***************************************************************************)
Round53(x, sticky) ==
    LET r == BitLen(x) - 53 IN
    IF r <= 0 THEN x
    ELSE LET hi == BShiftRight(x, r)
             lo == BSub(x, BShiftLeft(hi, r))
             c == BCmp(lo, BShiftLeft(<<1>>, r - 1))
             up == c > 0 \/ (c = 0 /\ (sticky \/ BOdd(hi)))
         IN BShiftLeft(IF up THEN BAdd(hi, <<1>>) ELSE hi, r)

FInt(n) == BShiftLeft(BFromInt(n), 60)
FAdd(a, b) == Round53(BAdd(a, b), FALSE)
FSub(a, b) == Round53(BSub(a, b), FALSE)
FMulInt(a, i) == Round53(BMulSmall(a, i), FALSE)
FDiv(a, b) == LET d == BDivMod(BShiftLeft(a, 60), b) IN Round53(d[1], d[2])
FLess(a, b) == BLess(a, b)
\* the double a decimal literal n/d denotes (correctly rounded)
FLit(n, d) == FDiv(FInt(n), FInt(d))
FFloor(x) == BToInt(BShiftRight(x, 60))
FIsInt(x) == BShiftLeft(BShiftRight(x, 60), 60) = x
FCeil(x) == FFloor(x) + (IF FIsInt(x) THEN 0 ELSE 1)

(***************************************************************************)
(* np.arange(start, stop, step): ceil((stop - start) / step) elements;     *)
(* element 0 is start, element 1 is start + step, and element i >= 2 is    *)
(* start + i * delta with delta = (start + step) - start.                  *)
(***************************************************************************)
\* a variant: the length as floor((stop - start) / step) + 1, which counts stop
\* itself whenever the quotient is exact
ArangeLen_FloorPlusOne(start, stop, step) ==
    FFloor(FDiv(FSub(stop, start), step)) + 1
ArangeLen(start, stop, step) == FCeil(FDiv(FSub(stop, start), step))
ArangeDelta(start, step) == FSub(FAdd(start, step), start)
\* a variant: every element as start + i * step
ArangeItem_Naive(start, step, i) ==
    IF i = 0 THEN start ELSE FAdd(start, FMulInt(step, i))
ArangeItem(start, step, i) ==
    IF i = 0 THEN start
    ELSE IF i = 1 THEN FAdd(start, step)
    ELSE FAdd(start, FMulInt(ArangeDelta(start, step), i))

\* get_asme_frequencies: the breakpoints and the increments, as decimal literals
frq_range == << <<1, 10>>, <<3, 1>>, <<36, 10>>, <<5, 1>>, <<8, 1>>,
                <<15, 1>>, <<18, 1>>, <<22, 1>>, <<34, 1>> >>
increments == << <<1, 10>>, <<15, 100>>, <<2, 10>>, <<25, 100>>, <<5, 10>>,
                 <<1, 1>>, <<2, 1>>, <<3, 1>> >>
NRanges == Len(increments)
RangeStart(r) == FLit(frq_range[r][1], frq_range[r][2])
RangeStop(r) == FLit(frq_range[r + 1][1], frq_range[r + 1][2])
RangeStep(r) == FLit(increments[r][1], increments[r][2])


(***************************************************************************)
(* round(x) for the k-th of the n points np.geomspace(a, b, n + 1)[1:]     *)
(* appends, a and b whole numbers: x = a * (b/a)^(k/n).  round(x) = m iff  *)
(* (2m - 1)^n <= 2^n * a^(n-k) * b^k < (2m + 1)^n, decided in whole        *)
(* numbers.  x is irrational for 0 < k < n, so no tie arises, and for the  *)
(* grids below it stays more than 0.01 away from every half-integer, far   *)
(* beyond the error of the floating-point evaluation.                      *)
(***************************************************************************)
GeomTarget(a, b, n, k) == BPowSmall(BPowSmall(BShiftLeft(<<1>>, n), a, n - k), b, k)

\* the largest m in lo..hi with (2m - 1)^n <= t
RECURSIVE GeomSearch(_, _, _, _)
GeomSearch(t, n, lo, hi) ==
    IF lo >= hi THEN lo
    ELSE LET mid == (lo + hi + 1) \div 2
         IN IF BLeq(BPowSmall(<<1>>, 2 * mid - 1, n), t)
            THEN GeomSearch(t, n, mid, hi)
            ELSE GeomSearch(t, n, lo, mid - 1)

\* a variant: the first point of the geomspace is kept and the last dropped
GeomRound_KeepFirst(a, b, n, k) == GeomSearch(GeomTarget(a, b, n, k - 1), n, a, b)
GeomRound(a, b, n, k) == GeomSearch(GeomTarget(a, b, n, k), n, a, b)

Last(s) == s[Len(s)]

\* get_default_frequencies(False), in closed form
AsmeBlock(r) ==
    [i \in 1..ArangeLen(RangeStart(r), RangeStop(r), RangeStep(r)) |->
        ArangeItem(RangeStart(r), RangeStep(r), i - 1)]
AsmeGrid ==
    AsmeBlock(1) \o AsmeBlock(2) \o AsmeBlock(3) \o AsmeBlock(4) \o AsmeBlock(5)
    \o AsmeBlock(6) \o AsmeBlock(7) \o AsmeBlock(8) \o <<FInt(34)>>
Grid100 ==
    LET m == 100 - Len(AsmeGrid)
    IN AsmeGrid \o [k \in 1..m |-> FInt(GeomRound(34, 100, m, k))]

(***************************************************************************)
(* The solvers.  The inputs are known by their lengths; the peak response  *)
(* of one oscillator is kept as the term naming what it was computed       *)
(* from: the solver, the frequency, the damping and the number of          *)
(* response samples the maximum is taken over.                             *)
(***************************************************************************)
RS_METHODS == {"fft", "shake"}
DEFAULT_METHOD == "fft"

\* RS_METHODS_DICT.get(method, RS_METHODS_DICT[DEFAULT_METHOD])
rs_func(method) == IF method \in RS_METHODS THEN method ELSE DEFAULT_METHOD

\* int(2 ** ceil(log(1.5 * n) / log(2))): the least power of two >= 1.5 n
RECURSIVE PowAtLeast(_, _)
PowAtLeast(p, n3) == IF 2 * p >= n3 THEN p ELSE PowAtLeast(2 * p, n3)
n_fft(n) == IF n = 0 THEN 0 ELSE PowAtLeast(1, 3 * n)

multiplier == 8

\* what the solver raises before its loop over the frequencies, or "none"
SolverPrecheck(solver, n_acc, n_time) ==
    IF n_time < 2 THEN "IndexError"                     \* time[1] - time[0]
    ELSE IF solver = "fft" /\ n_fft(n_acc) = 0 THEN "ValueError"  \* rfft(acc, 0)
    ELSE "none"

\* what iteration k of the solver's loop raises, or "none"
SolverStepError(solver, n_acc) ==
    IF solver = "shake" /\ n_acc = 0 THEN "IndexError"  \* acc[0]
    ELSE "none"

\* rs[k] = np.max(np.absolute(...)) for the frequency f
Peak(solver, f, zeta, n_acc) ==
    [solver |-> solver, f |-> f, zeta |-> zeta,
     samples |-> IF solver = "fft" THEN multiplier * n_fft(n_acc) ELSE n_acc + 1]

\* a variant: the responses are stored from the end of the array backwards
StoreAt_Reversed(arr, k, v) == [arr EXCEPT ![Len(arr) + 1 - k] = v]
\* rs[k] = ... : the slot of the response array iteration k writes
StoreAt(arr, k, v) == [arr EXCEPT ![k] = v]


(***************************************************************************)
(* Exact rationals <<n, d>>, d > 0, in lowest terms: the numbers of the    *)
(* integrator.  NaN is the mean of an empty array; it never enters an      *)
(* arithmetic operation, since every array it would scale is empty.        *)
(***************************************************************************)
RECURSIVE Gcd(_, _)
Gcd(a, b) == IF b = 0 THEN a ELSE Gcd(b, a % b)
Abs(n) == IF n < 0 THEN -n ELSE n
QNorm(n, d) ==
    LET g == Gcd(Abs(n), Abs(d))
        sg == IF d < 0 THEN -1 ELSE 1
    IN <<(sg * n) \div g, (sg * d) \div g>>
QInt(n) == <<n, 1>>
QAdd(a, b) == QNorm(a[1] * b[2] + b[1] * a[2], a[2] * b[2])
QSub(a, b) == QNorm(a[1] * b[2] - b[1] * a[2], a[2] * b[2])
QMul(a, b) == QNorm(a[1] * b[1], a[2] * b[2])
QDivInt(a, k) == QNorm(a[1], a[2] * k)
QMulInt(a, k) == QNorm(a[1] * k, a[2])
QNeg(a) == <<-a[1], a[2]>>
QLess(a, b) == a[1] * b[2] < b[1] * a[2]
NaN == "nan"
\* an optional argument: None, or Some(v) holding v
None == <<>>
Some(v) == <<v>>

RECURSIVE QSum(_)
QSum(s) == IF s = <<>> THEN QInt(0) ELSE QAdd(s[1], QSum(Tail(s)))

\* np.asarray of a list of whole numbers
asarray(s) == [i \in 1..Len(s) |-> QInt(s[i])]
\* np.diff
diff(x) == [i \in 1..(Len(x) - 1) |-> QSub(x[i + 1], x[i])]
\* np.mean
mean(d) == IF d = <<>> THEN NaN ELSE QDivInt(QSum(d), Len(d))
\* np.std(d) ** 2: the mean of the squared deviations from the mean
variance(d) ==
    IF d = <<>> THEN NaN
    ELSE LET m == mean(d)
         IN QDivInt(QSum([i \in 1..Len(d) |-> QMul(QSub(d[i], m), QSub(d[i], m))]),
                    Len(d))
\* np.cumsum
RECURSIVE cumsum(_)
cumsum(s) ==
    IF Len(s) <= 1 THEN s
    ELSE LET c == cumsum(SubSeq(s, 1, Len(s) - 1))
         IN Append(c, QAdd(c[Len(c)], s[Len(s)]))

Ok(v) == [tag |-> "ok", val |-> v]
Raise(e) == [tag |-> e]

(***************************************************************************)
(* autoRS/core/utils.py                                                    *)
(***************************************************************************)
\* np.diff(x) * (y[:-1] + y[1:]) / 2, or dx * (y[:-1] + y[1:]) / 2
TrapezoidSubIntegrals(y, x, dx) ==
    [i \in 1..(Len(y) - 1) |->
        QDivInt(QMul(IF x # None THEN diff(x[1])[i] ELSE dx, QAdd(y[i], y[i + 1])), 2)]

\* a variant: the sums start from zero, the initial value is forgotten
_cumulative_trapezoidal_FromZero(y, x, dx, initial) ==
    Ok(cumsum(<<QInt(0)>> \o TrapezoidSubIntegrals(y, x, dx)))
_cumulative_trapezoidal(y, x, dx, initial) ==
    Ok(cumsum(<<initial>> \o TrapezoidSubIntegrals(y, x, dx)))

\* dx / 3 * (5 * y[:-2] / 4 + 2 * y[1:-1] - y[2:] / 4)
QuadFwd(y, dx) ==
    [i \in 1..(Len(y) - 2) |->
        QMul(QDivInt(dx, 3),
             QSub(QAdd(QDivInt(QMulInt(y[i], 5), 4), QMulInt(y[i + 1], 2)),
                  QDivInt(y[i + 2], 4)))]
\* dx / 3 * (-y[:-2] / 4 + 2 * y[1:-1] + 5 * y[2:] / 4)
QuadBwd(y, dx) ==
    [i \in 1..(Len(y) - 2) |->
        QMul(QDivInt(dx, 3),
             QAdd(QAdd(QDivInt(QNeg(y[i]), 4), QMulInt(y[i + 1], 2)),
                  QDivInt(QMulInt(y[i + 2], 5), 4)))]

_cumulative_simpson_quad(y, dx, initial) ==
    LET fwd == QuadFwd(y, dx)
        bwd == QuadBwd(y, dx)
        n == Len(fwd)
    IN IF n = 0 THEN Raise("IndexError")           \* sub_integrals_fwd[0]
       ELSE Ok(cumsum(<<initial, fwd[1]>>
                      \o [i \in 1..(n - 1) |-> QDivInt(QAdd(fwd[i + 1], bwd[i]), 2)]
                      \o <<bwd[n]>>))

\* dx * (c1 * y[:-3] + c2 * y[1:-2] + c3 * y[2:-1] + c4 * y[3:]) / 24
Cubic(y, dx, c1, c2, c3, c4) ==
    [i \in 1..(Len(y) - 3) |->
        QMul(dx, QDivInt(QAdd(QAdd(QMulInt(y[i], c1), QMulInt(y[i + 1], c2)),
                              QAdd(QMulInt(y[i + 2], c3), QMulInt(y[i + 3], c4))), 24))]

_cumulative_simpson_cubic(y, dx, initial) ==
    LET fwd == Cubic(y, dx, 9, 19, -5, 1)
        mid == Cubic(y, dx, -1, 13, 13, -1)
        bwd == Cubic(y, dx, 1, -5, 19, 9)
        n == Len(fwd)
    IN IF n < 2 THEN Raise("IndexError")     \* sub_integrals_fwd[0], sub_integrals_fwd[1]
       ELSE Ok(cumsum(<<initial, fwd[1], QDivInt(QAdd(fwd[2], mid[1]), 2)>>
                      \o [i \in 1..(n - 2) |->
                            QDivInt(QAdd(QAdd(fwd[i + 2], mid[i + 1]), bwd[i]), 3)]
                      \o <<QDivInt(QAdd(bwd[n - 1], mid[n]), 2), bwd[n]>>))

integration_methods == {"trapezoidal", "simpson 1/3", "simpson 3/8"}

\* integration_methods[method](y, dx=dx, initial=initial)
ApplyMethod(method, y, dx, initial) ==
    IF method = "trapezoidal" THEN _cumulative_trapezoidal(y, None, dx, initial)
    ELSE IF method = "simpson 1/3" THEN _cumulative_simpson_quad(y, dx, initial)
    ELSE _cumulative_simpson_cubic(y, dx, initial)

\* a variant: an unknown name falls back to simpson 3/8
NormalizeMethod_OtherDefault(method) ==
    IF method \notin integration_methods THEN "simpson 3/8" ELSE method
\* if method not in integration_methods.keys(): method = "simpson 1/3"
NormalizeMethod(method) ==
    IF method \notin integration_methods THEN "simpson 1/3" ELSE method

\* a variant: a single sample is let through to the method
MethodForLength_NoSingleCheck(n, method) ==
    IF n = 2 THEN "trapezoidal"
    ELSE IF n = 3 /\ method = "simpson 3/8" THEN "simpson 1/3"
    ELSE method
\* a variant: the requested method is kept whatever the length
MethodForLength_NoDowngrade(n, method) ==
    IF n = 1 THEN "ValueError" ELSE method
\* the method after the checks on len(y); "ValueError" when len(y) == 1
MethodForLength(n, method) ==
    IF n = 1 THEN "ValueError"
    ELSE IF n = 2 THEN "trapezoidal"
    ELSE IF n = 3 /\ method = "simpson 3/8" THEN "simpson 1/3"
    ELSE method

\* a variant: the spacing of x is never examined
UnequallySpaced_Skipped(x) == FALSE
\* np.std(np.diff(x)) > 0.02 * np.mean(np.diff(x)); a comparison with NaN is
\* false.  For a mean m >= 0 this is variance > (m / 50)^2.
UnequallySpaced(x) ==
    LET d == diff(x)
        m == mean(d)
    IN /\ d # <<>>
       /\ \/ m[1] < 0
          \/ QLess(QMul(QDivInt(m, 50), QDivInt(m, 50)), variance(d))

cumulative_integral(y0, x0, dx, initial, method0) ==
    LET y == asarray(y0)
        method == MethodForLength(Len(y), NormalizeMethod(method0))
    IN IF method = "ValueError" THEN Raise("ValueError")
       ELSE IF x0 = None THEN ApplyMethod(method, y, dx, QInt(initial))
       ELSE LET x == asarray(x0[1])
            IN IF Len(x) # Len(y) THEN Raise("ValueError")
               ELSE IF UnequallySpaced(x)
               THEN _cumulative_trapezoidal(y, Some(x), dx, QInt(initial))
               ELSE ApplyMethod(method, y, mean(diff(x)), QInt(initial))

(***************************************************************************)
(* autoRS/__init__.py: the command-line application.                       *)
(*                                                                         *)
(* Text.  A Python str is the sequence of its characters, so that reading  *)
(* the settings file (a regular expression, str.strip, float) and writing  *)
(* it (str.format) are computed character by character.  A float read from *)
(* or written to the settings file is the decimal <<m, e>>, standing for   *)
(* m / 10^e, with no trailing zero in m unless e = 0.  The settings files  *)
(* of the model are written with digits, a sign and a point only, so the   *)
(* exponent and the nan / inf spellings float() also accepts do not occur. *)
(***************************************************************************)
Space == " "
IsSpace(c) == c = Space \/ c = "\t"

\* str.lstrip / str.rstrip / str.strip
RECURSIVE lstrip(_)
lstrip(s) == IF s # <<>> /\ IsSpace(s[1]) THEN lstrip(Tail(s)) ELSE s
RECURSIVE rstrip(_)
rstrip(s) ==
    IF s # <<>> /\ IsSpace(s[Len(s)]) THEN rstrip(SubSeq(s, 1, Len(s) - 1)) ELSE s
strip(s) == lstrip(rstrip(s))

\* the " *" of the regular expression: spaces only
RECURSIVE SkipSpaces(_)
SkipSpaces(s) == IF s # <<>> /\ s[1] = Space THEN SkipSpaces(Tail(s)) ELSE s

Digits == <<"0", "1", "2", "3", "4", "5", "6", "7", "8", "9">>
IsDigit(c) == \E d \in 1..10 : Digits[d] = c
DigitVal(c) == (CHOOSE d \in 1..10 : Digits[d] = c) - 1

\* the decimal <<m, e>> without trailing zeros
RECURSIVE DecNorm(_, _)
DecNorm(m, e) == IF e > 0 /\ m % 10 = 0 THEN DecNorm(m \div 10, e - 1) ELSE <<m, e>>

\* the digits of s from position i on, read into <<m, e, ok, seen>>: the value
\* so far, the digits after the point, well-formed so far, a digit was seen
RECURSIVE ReadDecimal(_, _, _, _)
ReadDecimal(s, i, acc, point) ==
    IF i > Len(s) THEN acc
    ELSE IF IsDigit(s[i])
         THEN ReadDecimal(s, i + 1,
                          [acc EXCEPT !.m = 10 * acc.m + DigitVal(s[i]),
                                      !.e = IF point THEN acc.e + 1 ELSE acc.e,
                                      !.seen = TRUE],
                          point)
    ELSE IF s[i] = "." /\ ~point THEN ReadDecimal(s, i + 1, acc, TRUE)
    ELSE [acc EXCEPT !.ok = FALSE]

\* float(s): Some(decimal), or None where float raises ValueError
float(s0) ==
    LET s == strip(s0)
        neg == s # <<>> /\ s[1] = "-"
        body == IF s # <<>> /\ (s[1] = "-" \/ s[1] = "+") THEN Tail(s) ELSE s
        r == ReadDecimal(body, 1, [m |-> 0, e |-> 0, ok |-> TRUE, seen |-> FALSE], FALSE)
    IN IF r.ok /\ r.seen
       THEN Some(DecNorm(IF neg THEN -r.m ELSE r.m, r.e))
       ELSE None

\* the digits of the natural number n, n written with at least w digits
RECURSIVE DigitsOf(_, _)
DigitsOf(n, w) ==
    IF n < 10 /\ w <= 1 THEN <<Digits[n + 1]>>
    ELSE Append(DigitsOf(n \div 10, w - 1), Digits[(n % 10) + 1])

\* "{}".format(x) of a float x >= 0
FormatFloat(x) ==
    IF x[2] = 0 THEN DigitsOf(x[1], 1) \o <<".", "0">>
    ELSE DigitsOf(x[1] \div 10^x[2], 1) \o <<".">> \o DigitsOf(x[1] % 10^x[2], x[2])

\* 0 < x < 1
InUnitInterval(x) == 0 < x[1] /\ x[1] < 10^x[2]

STR_folder == <<"f", "o", "l", "d", "e", "r">>
STR_zeta == <<"z", "e", "t", "a">>
STR_ext == <<"e", "x", "t">>
STR_method == <<"m", "e", "t", "h", "o", "d">>
STR_fft == <<"f", "f", "t">>
STR_shake == <<"s", "h", "a", "k", "e">>
STR_dot == <<".">>
STR_y == <<"y">>
STR_n == <<"n">>

\* the characters of the names the program uses
Spell(name) ==
    CASE name = "folder" -> STR_folder
      [] name = "zeta" -> STR_zeta
      [] name = "ext" -> STR_ext
      [] name = "method" -> STR_method
      [] name = "fft" -> STR_fft
      [] name = "shake" -> STR_shake

ALLOWED_SETTING_KEYS == {"folder", "zeta", "ext", "method"}
AVAILABLE_METHODS == RS_METHODS
DEFAULT_SETTINGS ==
    [folder |-> STR_dot, zeta |-> <<5, 2>>, ext |-> FALSE, method |-> DEFAULT_METHOD]

\* re.search("^(?P<key>.+)= *(?P<value>.*)$", string): the key is what stands
\* before the last "=" of the line and is not empty; None if nothing matches
EqualsAt(string) == {p \in 2..Len(string) : string[p] = "="}
Max(S) == CHOOSE p \in S : \A q \in S : q <= p
Match(string) ==
    IF EqualsAt(string) = {} THEN None
    ELSE LET p == Max(EqualsAt(string))
         IN Some([key |-> SubSeq(string, 1, p - 1),
                  value |-> SkipSpaces(SubSeq(string, p + 1, Len(string)))])

\* the loop over the lines of the file: raw_settings[key] = value
RECURSIVE RawSettings(_)
RawSettings(lines) ==
    IF lines = <<>> THEN <<>>
    ELSE LET raw == RawSettings(SubSeq(lines, 1, Len(lines) - 1))
             match == Match(lines[Len(lines)])
         IN IF match = None THEN raw
            ELSE LET key == strip(match[1].key)
                     names == {k \in ALLOWED_SETTING_KEYS : Spell(k) = key}
                 IN IF names = {} THEN raw
                    ELSE [k \in DOMAIN raw \cup names |->
                            IF k \in names THEN match[1].value ELSE raw[k]]

\* a variant: the settings loaded earlier, not the defaults, fill what the
\* file leaves out
process_settings_KeepEarlier(raw_settings) ==
    LET has(k) == k \in DOMAIN raw_settings
        zeta == IF has("zeta") THEN float(raw_settings["zeta"]) ELSE Some(settings.zeta)
    IN IF zeta = None THEN Raise("ValueError")
       ELSE Ok([folder |-> IF has("folder") THEN raw_settings["folder"] ELSE settings.folder,
                zeta |-> IF InUnitInterval(zeta[1]) THEN zeta[1] ELSE DEFAULT_SETTINGS.zeta,
                ext |-> IF has("ext") /\ raw_settings["ext"] = STR_y THEN TRUE
                        ELSE IF has("ext") /\ raw_settings["ext"] = STR_n THEN FALSE
                        ELSE IF has("ext") THEN DEFAULT_SETTINGS.ext
                        ELSE settings.ext,
                method |-> IF has("method")
                              /\ \E m \in AVAILABLE_METHODS : Spell(m) = raw_settings["method"]
                           THEN CHOOSE m \in AVAILABLE_METHODS :
                                   Spell(m) = raw_settings["method"]
                           ELSE IF has("method") THEN DEFAULT_SETTINGS.method
                           ELSE settings.method])

process_settings(raw_settings) ==
    LET has(k) == k \in DOMAIN raw_settings
        zeta == IF has("zeta") THEN float(raw_settings["zeta"])
                ELSE Some(DEFAULT_SETTINGS.zeta)
    IN IF zeta = None THEN Raise("ValueError")
       ELSE Ok([folder |-> IF has("folder") THEN raw_settings["folder"]
                           ELSE DEFAULT_SETTINGS.folder,
                zeta |-> IF InUnitInterval(zeta[1]) THEN zeta[1]
                         ELSE DEFAULT_SETTINGS.zeta,
                ext |-> IF has("ext") /\ raw_settings["ext"] = STR_y THEN TRUE
                        ELSE IF has("ext") /\ raw_settings["ext"] = STR_n THEN FALSE
                        ELSE DEFAULT_SETTINGS.ext,
                method |-> IF has("method")
                              /\ \E m \in AVAILABLE_METHODS : Spell(m) = raw_settings["method"]
                           THEN CHOOSE m \in AVAILABLE_METHODS :
                                   Spell(m) = raw_settings["method"]
                           ELSE DEFAULT_SETTINGS.method])

\* the texts of the program
SETTINGS_FNAME ==
    <<"R", "S", "_", "s", "e", "t", "t", "i", "n", "g", "s", ".", "t", "x",
      "t">>
TXT_title ==
    <<"R", "e", "s", "p", "o", "n", "s", "e", " ", "S", "p", "e", "c", "t",
      "r", "u", "m", " ", "G", "e", "n", "e", "r", "a", "t", "o", "r", " ",
      "s", "e", "t", "t", "i", "n", "g", "s", " ", "f", "i", "l", "e">>
TXT_folder ==
    <<"F", "o", "l", "d", "e", "r", " ", "w", "i", "t", "h", " ", "i", "n",
      "p", "u", "t", " ", "t", "i", "m", "e", " ", "h", "i", "s", "t", "o",
      "r", "i", "e", "s", " ", "i", "n", " ", ".", "a", "h", "l", " ", "o",
      "r", " ", ".", "c", "s", "v", " ", "f", "o", "r", "m", "a", "t", ":">>
TXT_zeta ==
    <<"C", "r", "i", "t", "i", "c", "a", "l", " ", "d", "a", "m", "p", "i",
      "n", "g", " ", "r", "a", "t", "i", "o", ":">>
TXT_ext ==
    <<"G", "e", "n", "e", "r", "a", "t", "e", " ", "R", "S", " ", "u", "p",
      " ", "t", "o", " ", "1", "0", "0", "0", "H", "z", " ", "(", "y", ")",
      " ", "o", "r", " ", "j", "u", "s", "t", " ", "1", "0", "0", "H", "z",
      " ", "(", "n", ")", "?">>
TXT_method ==
    <<"C", "h", "o", "o", "s", "e", " ", "R", "S", " ", "g", "e", "n", "e",
      "r", "a", "t", "i", "o", "n", " ", "m", "e", "t", "h", "o", "d", " ",
      "(", "f", "f", "t", ",", " ", "o", "r", " ", "s", "h", "a", "k", "e",
      ")", ":">>
TXT_eq == <<" ", "=", " ">>
STR_RS == <<"R", "S">>
STR_ahl == <<"a", "h", "l">>
STR_csv == <<"c", "s", "v">>
STR_dot_ahl == <<".", "a", "h", "l">>
STR_RS_csv == <<"_", "R", "S", ".", "c", "s", "v">>
STR_S_a == <<"_", "S", "_", "a">>

\* the lines write_default_settings writes
write_default_settings ==
    <<TXT_title,
      <<>>,
      TXT_folder,
      STR_folder \o TXT_eq \o DEFAULT_SETTINGS.folder,
      <<>>,
      TXT_zeta,
      STR_zeta \o TXT_eq \o FormatFloat(DEFAULT_SETTINGS.zeta),
      <<>>,
      TXT_ext,
      STR_ext \o TXT_eq \o (IF DEFAULT_SETTINGS.ext THEN STR_y ELSE STR_n),
      <<>>,
      TXT_method,
      STR_method \o TXT_eq \o Spell(DEFAULT_SETTINGS.method)>>

\* get_settings on a file of these lines: the new settings, or what is raised
get_settings(lines) == process_settings(RawSettings(lines))

(***************************************************************************)
(* The working directory.  fs.settings_file is None or Some(lines);        *)
(* fs.rs_folder says whether ./RS exists; fs.out maps the names of the     *)
(* files of ./RS to their contents; fs.dir lists the time-history files.   *)
(* "." is the only folder there is.                                        *)
(***************************************************************************)
\* os.listdir(".")
listdir(cwd) ==
    [i \in 1..Len(cwd.dir) |-> cwd.dir[i].name]
    \o (IF cwd.settings_file # None THEN <<SETTINGS_FNAME>> ELSE <<>>)
    \o (IF cwd.rs_folder THEN <<STR_RS>> ELSE <<>>)

\* SETTINGS_FNAME not in os.listdir(".")
SettingsDetected(cwd) == \E i \in 1..Len(listdir(cwd)) : listdir(cwd)[i] = SETTINGS_FNAME

Contains(s, t) == \E i \in 1..(Len(s) - Len(t) + 1) : SubSeq(s, i, i + Len(t) - 1) = t
EndsWith(s, t) == Len(s) >= Len(t) /\ SubSeq(s, Len(s) - Len(t) + 1, Len(s)) = t
\* s[-3:]
LastThree(s) == SubSeq(s, IF Len(s) > 3 THEN Len(s) - 2 ELSE 1, Len(s))
\* s[:-4]
DropFour(s) == SubSeq(s, 1, Len(s) - 4)

\* re.search(r"\.(ahl)|(csv)$", file): ".ahl" anywhere, or "csv" at the end
IsTimeHistoryName(file) == Contains(file, STR_dot_ahl) \/ EndsWith(file, STR_csv)

\* get_TH_file_list: the files of the listing whose names match, in order
get_TH_file_list(cwd) == SelectSeq(cwd.dir, LAMBDA f : IsTimeHistoryName(f.name))

\* fname[:-4] + "_RS.csv"
RsName(fname) == DropFour(fname) \o STR_RS_csv

\* a message on the standard output
Msg(m, a) == [msg |-> m, arg |-> a]

\* get_output_header_string: the settings named in the header of an output file
get_output_header_string(s) == [zeta |-> s.zeta, ext |-> s.ext, method |-> s.method]

\* len(get_default_frequencies(high_frequency)): the ASME points and
\* npts_low = 100 - len(frqs) more, then npts_high = 15 more
default_frequencies_len(high_frequency) == IF high_frequency THEN 100 + 15 ELSE 100

\* response_spectrum(acc, time, zeta=settings["zeta"],
\* high_frequency=settings["ext"]): no method is passed, so the parameter
\* keeps its default.  The spectrum is kept as the solver that computed it,
\* the damping and the number of its points.
SpectrumOf(n_acc, n_time, s) ==
    LET solver == rs_func(DEFAULT_METHOD)
        e1 == SolverPrecheck(solver, n_acc, n_time)
        e2 == SolverStepError(solver, n_acc)
    IN IF e1 # "none" THEN Raise(e1)
       ELSE IF e2 # "none" THEN Raise(e2)
       ELSE Ok([solver |-> solver, zeta |-> s.zeta,
                npts |-> default_frequencies_len(s.ext)])

\* the state of a run of generate_rs: the output files, the messages printed
\* and the exception that ended it ("none" while it runs)
Run(out, printed, err) == [out |-> out, printed |-> printed, err |-> err]

WriteFile(out, name, content) ==
    [n \in DOMAIN out \cup {name} |-> IF n = name THEN content ELSE out[n]]

generate_rs_from_ahl(th, run, s) ==
    LET r == SpectrumOf(th.n, th.n, s)       \* time = np.arange(0, dt * len(acc), dt)
    IN IF r.tag # "ok" THEN Run(run.out, run.printed, r.tag)
       ELSE Run(WriteFile(run.out, RsName(th.name),
                          [header |-> get_output_header_string(s),
                           cols |-> <<[name |-> STR_S_a, data |-> r.val]>>]),
                Append(run.printed, Msg("RS done", <<>>)), "none")

\* the loop over the acceleration columns: <<columns of rs, printed, err>>
RECURSIVE CsvColumns(_, _, _)
CsvColumns(th, k, s) ==
    IF k = 0 THEN [cols |-> <<>>, printed |-> <<>>, err |-> "none"]
    ELSE LET c == CsvColumns(th, k - 1, s)
             col == th.cols[k]
             r == SpectrumOf(col.n, th.n, s)
             named == Append(c.printed, Msg("column", col.name))
         IN IF c.err # "none" THEN c
            ELSE IF col.nan
            THEN [c EXCEPT !.printed = Append(named, Msg("Nan detected", <<>>))]
            ELSE IF r.tag # "ok" THEN [c EXCEPT !.printed = named, !.err = r.tag]
            ELSE [cols |-> Append(c.cols, [name |-> col.name \o STR_S_a, data |-> r.val]),
                  printed |-> Append(named, Msg("RS done", <<>>)),
                  err |-> "none"]

generate_rs_from_csv(th, run, s) ==
    LET c == CsvColumns(th, Len(th.cols), s)
    IN IF c.err # "none" THEN Run(run.out, run.printed \o c.printed, c.err)
       ELSE IF c.cols = <<>>
       THEN Run(run.out, Append(run.printed \o c.printed, Msg("No valid columns", <<>>)),
                "none")
       ELSE Run(WriteFile(run.out, RsName(th.name),
                          [header |-> get_output_header_string(s), cols |-> c.cols]),
                run.printed \o c.printed, "none")

\* for th_path, rs_path in zip(th_paths, rs_paths): the first k files
RECURSIVE GenerateAll(_, _, _, _)
GenerateAll(ths, k, out, s) ==
    IF k = 0 THEN Run(out, <<>>, "none")
    ELSE LET run == GenerateAll(ths, k - 1, out, s)
             th == ths[k]
             named == [run EXCEPT !.printed = Append(run.printed, Msg("file", th.name))]
             done(r) == IF r.err = "none"
                        THEN [r EXCEPT !.printed = Append(r.printed, Msg("", <<>>))]
                        ELSE r
         IN IF run.err # "none" THEN run
            ELSE IF LastThree(th.name) = STR_ahl THEN done(generate_rs_from_ahl(th, named, s))
            ELSE IF LastThree(th.name) = STR_csv THEN done(generate_rs_from_csv(th, named, s))
            ELSE named

\* what a call leaves: the settings, the directory and what it returned
Left(s, cwd, tag, printed) == [settings |-> s, cwd |-> cwd, tag |-> tag, printed |-> printed]

\* generate_rs when the settings file is not detected
WriteDefaultsAndReturn(s, cwd, printed) ==
    Left(s, [cwd EXCEPT !.settings_file = Some(write_default_settings)], "ok",
         Append(printed, Msg("Settings file not detected", <<>>)))

\* generate_rs from get_settings() on
RunWithSettings(s0, cwd, printed) ==
    IF cwd.settings_file = None THEN Left(s0, cwd, "FileNotFoundError", printed)
    ELSE LET got == get_settings(cwd.settings_file[1])
         IN IF got.tag # "ok" THEN Left(s0, cwd, got.tag, printed)
            ELSE LET s == got.val
                     shown == Append(printed, Msg("Detected settings", <<>>))
                 IN IF s.folder # STR_dot
                    THEN \* os.mkdir fails and is passed over; os.listdir raises
                         Left(s, cwd, "FileNotFoundError", shown)
                    ELSE LET made == [cwd EXCEPT !.rs_folder = TRUE]
                             run == GenerateAll(get_TH_file_list(made),
                                                Len(get_TH_file_list(made)), cwd.out, s)
                         IN Left(s, [made EXCEPT !.out = run.out],
                                 IF run.err = "none" THEN "ok" ELSE run.err,
                                 IF run.err = "none"
                                 THEN Append(shown \o run.printed,
                                             Msg("RS Generation complete", <<>>))
                                 ELSE shown \o run.printed)

\* a variant: the return after writing the default settings is missing
generate_rs_NoReturn(s, cwd) ==
    LET first == WriteDefaultsAndReturn(s, cwd, <<Msg("AutoRS", <<>>)>>)
    IN IF ~SettingsDetected(cwd) THEN RunWithSettings(s, first.cwd, first.printed)
       ELSE RunWithSettings(s, cwd, <<Msg("AutoRS", <<>>)>>)

generate_rs(s, cwd) ==
    IF ~SettingsDetected(cwd) THEN WriteDefaultsAndReturn(s, cwd, <<Msg("AutoRS", <<>>)>>)
    ELSE RunWithSettings(s, cwd, <<Msg("AutoRS", <<>>)>>)

(***************************************************************************)
(* autoRS/core/table.py: FloatTable.                                       *)
(*                                                                         *)
(* Values.  A float is Some(v) for the number v and None for nan.  An      *)
(* ndarray is [shape |-> the tuple of its dimensions, flat |-> its         *)
(* elements in row-major order], so that an array with rows and no column, *)
(* or columns and no row, keeps its shape; the dtype is not kept.  A       *)
(* Python list is [list |-> its items], an item being [num |-> v],         *)
(* [str |-> s] or a list again.  A dictionary is the sequence of its       *)
(* [key, val] entries in insertion order.  A sequence of column names is   *)
(* a sequence of strings.                                                  *)
(*                                                                         *)
(* Methods.  A method that changes the table is an operator from the       *)
(* object t and the arguments to [t |-> the object afterwards,             *)
(* r |-> Ok(value) or Raise(exception)]: an exception may leave the object *)
(* half-changed.                                                           *)
(***************************************************************************)
nan == None
Num(v) == [num |-> v]
Str(s) == [str |-> s]
List(items) == [list |-> items]
IsNum(item) == "num" \in DOMAIN item
IsList(item) == "list" \in DOMAIN item
IsArray(x) == "shape" \in DOMAIN x
IsDict(x) == "dict" \in DOMAIN x
Out(t, r) == [t |-> t, r |-> r]

\* ndarray.ndim, ndarray.size, len(ndarray)
ndim(a) == Len(a.shape)
size(a) == IF ndim(a) = 1 THEN a.shape[1] ELSE a.shape[1] * a.shape[2]
len(a) == a.shape[1]
\* a one-dimensional array of the given elements
Array1(cells) == [shape |-> <<Len(cells)>>, flat |-> cells]
\* np.arange(0, n)
np_arange(n) == Array1([i \in 1..n |-> Some(i - 1)])
\* value.reshape(-1, 1)
reshape_column(a) == [shape |-> <<size(a), 1>>, flat |-> a.flat]
\* ndarray.flatten()
flatten(a) == Array1(a.flat)
\* ndarray.T of a two-dimensional array
transpose(a) ==
    LET n == a.shape[1]
        m == a.shape[2]
    IN  [shape |-> <<m, n>>,
         flat |-> [k \in 1..(n * m) |->
                     a.flat[((k - 1) % n) * m + ((k - 1) \div n) + 1]]]
\* a[:, idx], idx counted from 0
Column(a, idx) ==
    Array1([i \in 1..a.shape[1] |-> a.flat[(i - 1) * a.shape[2] + idx + 1]])
\* a[:, idx] = value, in place
SetColumn(a, idx, value) ==
    [a EXCEPT !.flat = [k \in 1..Len(a.flat) |->
        IF (k - 1) % a.shape[2] = idx
        THEN value.flat[((k - 1) \div a.shape[2]) + 1]
        ELSE a.flat[k]]]
\* np.delete(a, idx, axis=1)
DeleteColumn(a, idx) ==
    LET n == a.shape[1]
        m == a.shape[2]
    IN  [shape |-> <<n, m - 1>>,
         flat |-> [k \in 1..(n * (m - 1)) |->
                     LET r == (k - 1) \div (m - 1)
                         c == (k - 1) % (m - 1)
                     IN  a.flat[r * m + (IF c < idx THEN c ELSE c + 1) + 1]]]
\* np.append(a, value.reshape(-1, 1), axis=1)
AppendColumn(a, value) ==
    LET n == a.shape[1]
        m == a.shape[2]
    IN  [shape |-> <<n, m + 1>>,
         flat |-> [k \in 1..(n * (m + 1)) |->
                     LET r == (k - 1) \div (m + 1)
                         c == (k - 1) % (m + 1)
                     IN  IF c = m THEN value.flat[r + 1] ELSE a.flat[r * m + c + 1]]]
\* nan_data = np.empty(shape); nan_data[:] = np.nan
full_nan(shp) ==
    [shape |-> shp, flat |-> [k \in 1..(shp[1] * shp[2]) |-> nan]]

\* np.asarray_float(raw, dtype=float): an array is returned as it is; a list of
\* numbers is one-dimensional; a list of lists of numbers, all of one length,
\* is two-dimensional; anything else is a ValueError
asarray_float(raw) ==
    IF IsArray(raw) THEN Ok(raw)
    ELSE LET items == raw.list
             n == Len(items)
         IN  IF \A i \in 1..n : IsNum(items[i])
             THEN Ok(Array1([i \in 1..n |-> Some(items[i].num)]))
             ELSE IF /\ \A i \in 1..n : IsList(items[i])
                     /\ \A i \in 1..n : \A j \in 1..Len(items[i].list) :
                            IsNum(items[i].list[j])
                     /\ \A i \in 1..n : Len(items[i].list) = Len(items[1].list)
             THEN LET m == Len(items[1].list)
                  IN  Ok([shape |-> <<n, m>>,
                          flat |-> [k \in 1..(n * m) |->
                              Some(items[((k - 1) \div m) + 1].list[((k - 1) % m) + 1].num)]])
             ELSE Raise("ValueError")

\* dict.keys(), key in dict, dict[key], dict.pop(key)
keys(d) == [i \in 1..Len(d) |-> d[i].key]
HasKey(d, key) == \E i \in 1..Len(d) : d[i].key = key
Lookup(d, key) == d[CHOOSE i \in 1..Len(d) : d[i].key = key].val
DictPop(d, key) == SelectSeq(d, LAMBDA e : e.key # key)
\* the distinct elements of s in the order of their first occurrence
RECURSIVE Distinct(_)
Distinct(s) ==
    IF s = <<>> THEN <<>>
    ELSE LET d == Distinct(SubSeq(s, 1, Len(s) - 1))
         IN  IF \E i \in 1..Len(d) : d[i] = Last(s) THEN d ELSE Append(d, Last(s))
\* {str(key): i for i, key in enumerate(column_names)}: a name that occurs
\* twice keeps its first place among the keys and its last position
EnumerateNames(column_names) ==
    LET ks == Distinct(column_names)
    IN  [i \in 1..Len(ks) |->
           [key |-> ks[i],
            val |-> Max({j \in 1..Len(column_names) : column_names[j] = ks[i]}) - 1]]

\* the exceptions of the model and their base classes (SizeMismatchError and
\* EmptyInputError derive from Exception; numpy's AxisError derives from
\* ValueError and IndexError)
Bases(e) ==
    CASE e = "SizeMismatchError" -> {"Exception"}
      [] e = "EmptyInputError" -> {"Exception"}
      [] e = "AxisError" -> {"ValueError", "IndexError"}
      [] e = "KeyError" -> {"LookupError"}
      [] e = "IndexError" -> {"LookupError"}
      [] e = "LookupError" -> {"Exception"}
      [] e = "ValueError" -> {"Exception"}
      [] e = "StopIteration" -> {"Exception"}
      [] OTHER -> {}
\* isinstance(exception of class e, cls), what assertRaises(cls) and
\* "except cls" test
RECURSIVE IsInstance(_, _)
IsInstance(e, cls) == e = cls \/ \E b \in Bases(e) : IsInstance(b, cls)

\* FloatTable.column_names, FloatTable.shape, FloatTable.data (the getters)
column_names_of(t) == keys(t._column_dict)
shape(t) ==
    <<IF t._index # None THEN len(t._index[1]) ELSE 0, Len(column_names_of(t))>>
data(t) == IF t._data = None THEN full_nan(shape(t)) ELSE t._data[1]

\* the value of F at v, v computed once: "x = v; F(x)"
With(v, F(_)) == CHOOSE y \in {F(x) : x \in {v}} : TRUE

\* the index setter
set_index(t, raw_index) ==
    With(asarray_float(raw_index), LAMBDA a :
        IF a.tag # "ok" THEN Out(t, a)
        ELSE IF t._index # None /\ len(a.val) # len(t._index[1])
        THEN Out(t, Raise("SizeMismatchError"))
        ELSE Out([t EXCEPT !._index = Some(a.val)], Ok(None)))

\* the column_names setter
set_column_names(t, column_names) ==
    IF size(data(t)) # 0 /\ data(t).shape[2] # Len(column_names)
    THEN Out(t, Raise("SizeMismatchError"))
    ELSE Out([t EXCEPT !._column_dict = EnumerateNames(column_names)], Ok(None))

_parse_data_not_dict(raw_data) ==
    With(asarray_float(raw_data), LAMBDA a :
        IF a.tag # "ok" THEN a
        ELSE With(IF ndim(a.val) = 1 THEN reshape_column(a.val) ELSE a.val, LAMBDA d :
                 IF \E i \in 1..ndim(d) : d.shape[i] = 0
                 THEN Raise("EmptyInputError")
                 ELSE Ok(d)))

_parse_data_dict(raw_data) ==
    With(raw_data.dict, LAMBDA d :
        IF Len(d) = 0 THEN Raise("EmptyInputError")
        ELSE IF Cardinality({Len(d[i].val.list) : i \in 1..Len(d)}) > 1
        THEN Raise("SizeMismatchError")
        ELSE With(asarray_float(List([i \in 1..Len(d) |-> d[i].val])), LAMBDA a :
                 IF a.tag # "ok" THEN a
                 ELSE Ok([data |-> transpose(a.val), column_names |-> keys(d)])))

\* raw_data is None or Some(a one-dimensional array)
_set_index_from_data(t, raw_data) ==
    set_index(t, np_arange(IF raw_data # None
                           THEN reshape_column(raw_data[1]).shape[1]
                           ELSE data(t).shape[1]))

_set_column_names_from_data(t) ==
    set_column_names(t, [i \in 1..data(t).shape[2] |-> "Col" \o ToString(i - 1)])

\* the data setter
set_data(t, raw_data) ==
    With(_parse_data_not_dict(raw_data), LAMBDA p :
        IF p.tag # "ok" THEN Out(t, p)
        ELSE IF t._index # None /\ shape(t)[1] # p.val.shape[1]
        THEN Out(t, Raise("SizeMismatchError"))
        ELSE IF column_names_of(t) # <<>> /\ shape(t)[2] # p.val.shape[2]
        THEN Out(t, Raise("SizeMismatchError"))
        ELSE With([t EXCEPT !._data = Some(p.val)], LAMBDA t1 :
             With(IF t1._index = None THEN _set_index_from_data(t1, None)
                  ELSE Out(t1, Ok(None)), LAMBDA s2 :
                 IF s2.r.tag # "ok" THEN s2
                 ELSE IF column_names_of(s2.t) = <<>>
                 THEN _set_column_names_from_data(s2.t)
                 ELSE Out(s2.t, Ok(None)))))

_verify_key(t, key) ==
    IF key \notin ({column_names_of(t)[i] : i \in 1..Len(column_names_of(t))}
                   \cup {t._index_name})
    THEN Raise("KeyError")
    ELSE Ok(None)

__getitem__(t, key) ==
    IF _verify_key(t, key).tag # "ok" THEN _verify_key(t, key)
    ELSE IF key = t._index_name
    THEN Ok(IF t._index = None THEN None ELSE t._index[1])
    ELSE With(Lookup(t._column_dict, key), LAMBDA idx :
             IF idx >= data(t).shape[2] THEN Raise("IndexError")
             ELSE Ok(Column(data(t), idx)))

\* np.delete of the array None, which has no axis 1, raises AxisError; a
\* position beyond the columns raises IndexError
__delitem__(t, key) ==
    IF _verify_key(t, key).tag # "ok" THEN Out(t, _verify_key(t, key))
    ELSE IF key = t._index_name THEN Out(t, Raise("ValueError"))
    ELSE With(Lookup(t._column_dict, key), LAMBDA idx :
             IF t._data = None THEN Out(t, Raise("AxisError"))
             ELSE IF idx >= t._data[1].shape[2] THEN Out(t, Raise("IndexError"))
             ELSE With([t EXCEPT !._data = Some(DeleteColumn(t._data[1], idx)),
                                 !._column_dict = DictPop(t._column_dict, key)],
                       LAMBDA t2 : set_column_names(t2, keys(t2._column_dict))))

\* __setitem__, lines 227-238, on the table t1 whose index is set and fits
\* the one-dimensional array value.  The assignment into a column writes
\* into the array self.data returns, which is self._data itself once data is
\* defined; an array of another length than the rows does not fit
\* (ValueError).
SetColumnOrAppend(t1, key, value) ==
    With(data(t1), LAMBDA new_data :
        IF HasKey(t1._column_dict, key)
        THEN With(Lookup(t1._column_dict, key), LAMBDA idx :
                 IF idx >= new_data.shape[2] THEN Out(t1, Raise("IndexError"))
                 ELSE IF new_data.shape[1] # len(value) THEN Out(t1, Raise("ValueError"))
                 ELSE With(SetColumn(new_data, idx, value), LAMBDA written :
                          With(IF t1._data = None THEN t1
                               ELSE [t1 EXCEPT !._data = Some(written)],
                               LAMBDA t2 : set_data(t2, written))))
        ELSE IF size(new_data) # 0 /\ new_data.shape[1] # len(value)
        THEN Out(t1, Raise("ValueError"))
        ELSE With([t1 EXCEPT !._data = Some(IF size(new_data) = 0
                                            THEN reshape_column(value)
                                            ELSE AppendColumn(new_data, value))],
                  LAMBDA t2 : set_column_names(t2, Append(column_names_of(t1), key))))

__setitem__(t, key, raw_value) ==
    With(asarray_float(raw_value), LAMBDA a :
        IF a.tag # "ok" THEN Out(t, a)
        ELSE With(flatten(a.val), LAMBDA value :
                 IF key = t._index_name THEN set_index(t, value)
                 ELSE IF t._index # None /\ shape(t)[1] # len(value)
                 THEN Out(t, Raise("SizeMismatchError"))
                 ELSE With(IF t._index = None
                           THEN _set_index_from_data(t, Some(value)).t
                           ELSE t,
                           LAMBDA t1 : SetColumnOrAppend(t1, key, value))))

\* column_names[-1] of no names is an IndexError, which popitem turns into
\* StopIteration
popitem(t) ==
    IF column_names_of(t) = <<>> THEN Out(t, Raise("StopIteration"))
    ELSE With(Last(column_names_of(t)), LAMBDA key :
         With(__getitem__(t, key), LAMBDA value :
             IF value.tag # "ok" THEN Out(t, value)
             ELSE With(__delitem__(t, key), LAMBDA deleted :
                      IF deleted.r.tag # "ok" THEN deleted
                      ELSE Out(deleted.t, Ok(<<key, value.val>>)))))

\* MutableMapping.pop(key), inherited: value = self[key]; del self[key];
\* return value.  No default is given, so a KeyError is raised again.
pop(t, key) ==
    With(__getitem__(t, key), LAMBDA value :
        IF value.tag # "ok" THEN Out(t, value)
        ELSE With(__delitem__(t, key), LAMBDA deleted :
                 IF deleted.r.tag # "ok" THEN deleted
                 ELSE Out(deleted.t, value)))

reset_index(t) ==
    IF t._index # None
    THEN IF t._data = None
         THEN Out([t EXCEPT !._index = None], Ok(None))
         ELSE Out([t EXCEPT !._index = Some(np_arange(shape(t)[1]))], Ok(None))
    ELSE Out(t, Ok(None))

\* FloatTable() before its arguments are looked at
NewTable(index_name) ==
    [_data |-> None, _index |-> None, _column_dict |-> <<>>, _index_name |-> index_name]

\* __init__, lines 105-109: raw_data is None or Some(a list or a dictionary)
InitData(t0, raw_data) ==
    IF raw_data = None THEN Out(t0, Ok(None))
    ELSE IF IsDict(raw_data[1])
    THEN With(_parse_data_dict(raw_data[1]), LAMBDA p :
             IF p.tag # "ok" THEN Out(t0, p)
             ELSE With(set_data(t0, p.val.data), LAMBDA sd :
                      IF sd.r.tag # "ok" THEN sd
                      ELSE set_column_names(sd.t, p.val.column_names)))
    ELSE With(_parse_data_not_dict(raw_data[1]), LAMBDA p :
             IF p.tag # "ok" THEN Out(t0, p) ELSE set_data(t0, p.val))
\* __init__, lines 112-113, after the step s: index is None or Some(a list)
InitIndex(s, index) ==
    IF s.r.tag = "ok" /\ index # None THEN set_index(s.t, index[1]) ELSE s
\* __init__, lines 115-116, after the step s: column_names is None or
\* Some(names)
InitColumnNames(s, column_names) ==
    IF s.r.tag = "ok" /\ column_names # None
    THEN set_column_names(s.t, column_names[1])
    ELSE s
\* FloatTable(raw_data, index, column_names, index_name); invalid is
\* FloatTable._invalid_column_names, the set of the class, which the
\* constructor adds index_name to before it looks at the names
__init__(invalid, raw_data, index, column_names, index_name) ==
    With(invalid \cup {index_name}, LAMBDA added :
        IF /\ column_names # None
           /\ {column_names[1][i] : i \in 1..Len(column_names[1])} \cap added # {}
        THEN [t |-> NewTable(index_name), r |-> Raise("ValueError"), invalid |-> added]
        ELSE With(InitData(NewTable(index_name), raw_data), LAMBDA s1 :
             With(InitIndex(s1, index), LAMBDA s2 :
             With(InitColumnNames(s2, column_names), LAMBDA built :
                 [t |-> built.t, r |-> built.r, invalid |-> added]))))

(***************************************************************************)
(* autoRS/core/motion.py: MotionHistory.                                   *)
(*                                                                         *)
(* The object is the record [_table, _last_updated]: _table is a           *)
(* FloatTable, _last_updated is None or Some(name of a motion quantity).   *)
(* The cells of the motion columns are exact rationals Some(<<n, d>>) or   *)
(* nan; the cells of the time index are whole numbers Some(k) or nan, as   *)
(* np.arange makes them.  A method is an operator from the object m and    *)
(* the arguments to [t |-> the object afterwards, r |-> Ok(value) or       *)
(* Raise(exception)].                                                      *)
(***************************************************************************)
_motion_column_names == <<"acceleration", "velocity", "displacement">>
column_set == {"time", "acceleration", "velocity", "displacement"}

\* float arithmetic on cells: nan propagates
isnan(c) == c = nan
fadd(a, b) == IF isnan(a) \/ isnan(b) THEN nan ELSE Some(QAdd(a[1], b[1]))
fsub(a, b) == IF isnan(a) \/ isnan(b) THEN nan ELSE Some(QSub(a[1], b[1]))
fmul(a, b) == IF isnan(a) \/ isnan(b) THEN nan ELSE Some(QMul(a[1], b[1]))
fdiv(a, b) ==
    IF isnan(a) \/ isnan(b) THEN nan
    ELSE Some(QNorm(a[1][1] * b[1][2], a[1][2] * b[1][1]))
\* a cell of the time index as a float
ftime(c) == IF isnan(c) THEN nan ELSE Some(QInt(c[1]))
\* np.cumsum of cells
RECURSIVE cumsum_float(_)
cumsum_float(s) ==
    IF Len(s) <= 1 THEN s
    ELSE With(cumsum_float(SubSeq(s, 1, Len(s) - 1)), LAMBDA c :
             Append(c, fadd(c[Len(c)], s[Len(s)])))

\* np.gradient(f, x) of the one-dimensional arrays f and x: one-sided
\* differences at the two ends, and inside, with hs = x[i] - x[i-1] and
\* hd = x[i+1] - x[i],
\*   (hs^2 f[i+1] + (hd^2 - hs^2) f[i] - hd^2 f[i-1]) / (hs hd (hd + hs)),
\* which for equal steps is (f[i+1] - f[i-1]) / (2 h).  Fewer than two
\* samples are a ValueError.
gradient(f, x) ==
    IF x = None THEN Raise("TypeError")
    ELSE IF len(f) < 2 \/ len(x[1]) # len(f) THEN Raise("ValueError")
    ELSE LET n == len(f)
             F(i) == f.flat[i]
             X(i) == ftime(x[1].flat[i])
             Slope(i, j) == fdiv(fsub(F(j), F(i)), fsub(X(j), X(i)))
             Inner(i) ==
                 LET hs == fsub(X(i), X(i - 1))
                     hd == fsub(X(i + 1), X(i))
                 IN  fdiv(fsub(fadd(fmul(fmul(hs, hs), F(i + 1)),
                                    fmul(fsub(fmul(hd, hd), fmul(hs, hs)), F(i))),
                               fmul(fmul(hd, hd), F(i - 1))),
                          fmul(fmul(hs, hd), fadd(hd, hs)))
         IN  Ok(Array1([i \in 1..n |->
                 IF i = 1 THEN Slope(1, 2)
                 ELSE IF i = n THEN Slope(n - 1, n)
                 ELSE Inner(i)]))

\* cumulative_integral(y, x, method="trapezoidal") of the float arrays y and
\* x (x is None or Some(array)), with dx = 1 and initial = 0: an x with a nan
\* has nan for the standard deviation and for the mean of its steps, so the
\* comparison is false and dx is nan
cumulative_integral_trapezoidal(y, x) ==
    LET n == len(y)
        half(i) == fdiv(fadd(y.flat[i], y.flat[i + 1]), Some(QInt(2)))
        started(subs) == Ok(Array1(cumsum_float(<<Some(QInt(0))>> \o subs)))
    IN  IF n = 1 THEN Raise("ValueError")
        ELSE IF x = None
        THEN started([i \in 1..(n - 1) |-> fmul(Some(QInt(1)), half(i))])
        ELSE IF len(x[1]) # n THEN Raise("ValueError")
        ELSE IF \E i \in 1..n : isnan(x[1].flat[i])
        THEN started([i \in 1..(n - 1) |-> nan])
        ELSE With(asarray([i \in 1..n |-> x[1].flat[i][1]]), LAMBDA xq :
                 IF UnequallySpaced(xq)
                 THEN started([i \in 1..(n - 1) |-> fmul(Some(diff(xq)[i]), half(i))])
                 ELSE started([i \in 1..(n - 1) |->
                                  fmul(Some(mean(diff(xq))), half(i))]))

\* the time getter
time_of(m) == m._table._index
\* a variant: the time is stored whatever its length
set_time_Unchecked(m, value) ==
    Out([m EXCEPT !._table = [@ EXCEPT !._index = Some(value)]], Ok(None))
\* the time setter
set_time(m, value) ==
    With(set_index(m._table, value), LAMBDA o : Out([m EXCEPT !._table = o.t], o.r))

\* reset(): a new table with the three motion columns and the index name
\* "time"; _last_updated is left as it is
reset_table(invalid) ==
    __init__(invalid, None, None, Some(_motion_column_names), "time")

\* reset(skip_columns): every column of column_set that is not skipped is
\* assigned nan for each row.  The columns are those of a set of strings,
\* which Python iterates in an order that changes from run to run: order is
\* that order.
RECURSIVE reset_columns(_, _)
reset_columns(m, order) ==
    IF order = <<>> THEN Out(m, Ok(None))
    ELSE With(__setitem__(m._table, Head(order),
                          Array1([i \in 1..shape(m._table)[1] |-> nan])),
              LAMBDA o :
                 IF o.r.tag # "ok" THEN Out([m EXCEPT !._table = o.t], o.r)
                 ELSE reset_columns([m EXCEPT !._table = o.t], Tail(order)))

\* a variant: the other columns are left as they are
set_motion_NoReset(m, name, value, order) ==
    With(__setitem__(m._table, name, value), LAMBDA o :
        IF o.r.tag # "ok" THEN Out([m EXCEPT !._table = o.t], o.r)
        ELSE Out([m EXCEPT !._table = o.t, !._last_updated = Some(name)], Ok(None)))
\* the setters of acceleration, velocity and displacement: name is the
\* quantity, order the order of the two other columns in the reset
set_motion(m, name, value, order) ==
    With(__setitem__(m._table, name, value), LAMBDA o :
        IF o.r.tag # "ok" THEN Out([m EXCEPT !._table = o.t], o.r)
        ELSE reset_columns([m EXCEPT !._table = o.t, !._last_updated = Some(name)],
                           order))

\* np.arange(0, npts * dt, dt) for a whole dt > 0
arange_dt(npts, dt) == Array1([i \in 1..npts |-> Some((i - 1) * dt)])
time_from_dt(m, dt, npts) ==
    IF npts = None /\ shape(m._table)[1] = 0 THEN Out(m, Raise("ValueError"))
    ELSE set_time(m, arange_dt(IF npts = None THEN shape(m._table)[1] ELSE npts[1],
                               dt))

\* what a getter gives: the object afterwards, the array or the exception,
\* and the number of columns derived and stored on the way
Got(m, r, steps) == [t |-> m, r |-> r, steps |-> steps]
\* self._table[name][0]; a column without rows has no element 0
First(m, name) ==
    With(__getitem__(m._table, name), LAMBDA c :
        IF c.tag # "ok" THEN c
        ELSE IF len(c.val) = 0 THEN Raise("IndexError")
        ELSE Ok(c.val.flat[1]))
\* self._table[name] = derived; return copy(self._table[name]), where src is
\* what the getter of the source gave
Store(name, src, derived) ==
    IF derived.tag # "ok" THEN Got(src.t, derived, src.steps)
    ELSE With(__setitem__(src.t._table, name, derived.val), LAMBDA o :
             IF o.r.tag # "ok"
             THEN Got([src.t EXCEPT !._table = o.t], o.r, src.steps)
             ELSE Got([src.t EXCEPT !._table = o.t],
                      __getitem__(o.t, name), src.steps + 1))

\* The getters.  They call each other; depth is the number of nested getter
\* calls the interpreter still allows, and a call beyond it is Python's
\* RecursionError.
RECURSIVE acceleration(_, _), velocity(_, _), displacement(_, _)
acceleration(m, depth) ==
    IF depth = 0 THEN Got(m, Raise("RecursionError"), 0)
    ELSE With(First(m, "acceleration"), LAMBDA c :
        IF c.tag # "ok" THEN Got(m, c, 0)
        ELSE IF isnan(c.val) /\ m._last_updated # None
        THEN With(velocity(m, depth - 1), LAMBDA v :
                 IF v.r.tag # "ok" THEN v
                 ELSE Store("acceleration", v, gradient(v.r.val, time_of(v.t))))
        ELSE Got(m, __getitem__(m._table, "acceleration"), 0))

velocity(m, depth) ==
    IF depth = 0 THEN Got(m, Raise("RecursionError"), 0)
    ELSE With(First(m, "velocity"), LAMBDA c :
        IF c.tag # "ok" THEN Got(m, c, 0)
        ELSE IF isnan(c.val) /\ m._last_updated = Some("displacement")
        THEN With(displacement(m, depth - 1), LAMBDA d :
                 IF d.r.tag # "ok" THEN d
                 ELSE Store("velocity", d, gradient(d.r.val, time_of(d.t))))
        ELSE IF isnan(c.val) /\ m._last_updated = Some("acceleration")
        THEN With(acceleration(m, depth - 1), LAMBDA a :
                 IF a.r.tag # "ok" THEN a
                 ELSE Store("velocity", a,
                            cumulative_integral_trapezoidal(a.r.val, time_of(a.t))))
        ELSE Got(m, __getitem__(m._table, "velocity"), 0))

displacement(m, depth) ==
    IF depth = 0 THEN Got(m, Raise("RecursionError"), 0)
    ELSE With(First(m, "displacement"), LAMBDA c :
        IF c.tag # "ok" THEN Got(m, c, 0)
        ELSE IF isnan(c.val) /\ m._last_updated # None
        THEN With(velocity(m, depth - 1), LAMBDA v :
                 IF v.r.tag # "ok" THEN v
                 ELSE Store("displacement", v,
                            cumulative_integral_trapezoidal(v.r.val, time_of(v.t))))
        ELSE Got(m, __getitem__(m._table, "displacement"), 0))

\* the motion quantity __init__ stores: the first that is given, in the
\* order acceleration, velocity, displacement; None when none is given
Stored(acc, vel, disp) ==
    IF acc # None THEN Some("acceleration")
    ELSE IF vel # None THEN Some("velocity")
    ELSE IF disp # None THEN Some("displacement")
    ELSE None

\* __init__, lines 110-121: the time, else dt, after the motion quantity
InitTime(s, time_given, dt) ==
    IF s.r.tag # "ok" THEN s
    ELSE IF time_given # None THEN set_time(s.t, time_given[1])
    ELSE IF dt # None /\ shape(s.t._table)[1] > 0 THEN time_from_dt(s.t, dt[1], None)
    ELSE IF dt # None THEN Out(s.t, Raise("ValueError"))
    ELSE s

\* MotionHistory(time, acceleration, velocity, displacement, dt); invalid is
\* FloatTable._invalid_column_names, order the order of the columns in the
\* reset of the setter
MotionHistory(invalid, time_given, acc, vel, disp, dt, order) ==
    With(reset_table(invalid), LAMBDA new :
        IF new.r.tag # "ok" THEN new
        ELSE With([_table |-> new.t, _last_updated |-> None], LAMBDA m0 :
             With(Stored(acc, vel, disp), LAMBDA name :
             With(IF name = None THEN Out(m0, Ok(None))
                  ELSE set_motion(m0, name[1],
                                  IF name[1] = "acceleration" THEN acc[1]
                                  ELSE IF name[1] = "velocity" THEN vel[1]
                                  ELSE disp[1],
                                  order),
                  LAMBDA s1 :
                  With(InitTime(s1, time_given, dt), LAMBDA built :
                      [t |-> built.t, r |-> built.r, invalid |-> new.invalid])))))

(***************************************************************************)
(* Bounds of the model.                                                    *)
(***************************************************************************)
MaxSamples == 2      \* acc and time have 0..MaxSamples samples
MaxLen == 6          \* y has 0..MaxLen samples

Methods == RS_METHODS \cup {"newmark"}      \* the last one is in no table
Zetas == {5, 100}                           \* damping ratio, in percent

\* the arguments cumulative_integral is called with
IntMethods == integration_methods \cup {"romberg"}   \* the last one is in no table
YValues == {1, 3}
DxValues == {<<1, 1>>, <<1, 2>>}
InitialValues == {0, 10}
RECURSIVE SeqsOfLen(_, _)
SeqsOfLen(S, n) ==
    IF n = 0 THEN {<<>>}
    ELSE {Append(q, v) : q \in SeqsOfLen(S, n - 1), v \in S}
Ys == UNION {SeqsOfLen(YValues, n) : n \in 0..MaxLen}
\* abscissas for n samples: none, equally spaced, unequally spaced, nearly
\* equally spaced (steps of 101 and 100), decreasing, of another length
Xs(n) == {None,
          Some([i \in 1..n |-> 2 * i]),
          Some([i \in 1..n |-> i * i]),
          Some([i \in 1..n |-> 100 * i + (i \div 2)]),
          Some([i \in 1..n |-> n - i]),
          Some([i \in 1..(n + 1) |-> i]),
          Some(<<1, 5, 6>>)}

NoLoop == [r |-> 0]
NoArgs == [high_frequency |-> FALSE]
NoRet == [tag |-> "none"]
NoCall == [y |-> <<>>]

MaxLines == 2        \* a settings file has 0..MaxLines lines

\* the lines of the settings files get_settings is called on
LINE_folder_users ==
    <<"f", "o", "l", "d", "e", "r", "=", " ", " ", " ", "C", ":", "\\",
      "U", "s", "e", "r", "s">>
LINE_unknown_key ==
    <<"s", "d", "f", "=", "a">>
LINE_zeta_007 ==
    <<"z", "e", "t", "a", "=", "0", ".", "0", "7">>
LINE_ext_n ==
    <<"e", "x", "t", "=", " ", " ", "n">>
LINE_folder_hello ==
    <<" ", " ", "f", "o", "l", "d", "e", "r", " ", " ", " ", "=", " ", " ",
      "h", "e", "l", "l", "o">>
LINE_method_shake ==
    <<"m", "e", "t", "h", "o", "d", "=", " ", "s", "h", "a", "k", "e">>
LINE_zeta_high ==
    <<"z", "e", "t", "a", " ", "=", " ", "1", ".", "5">>
LINE_zeta_zero ==
    <<"z", "e", "t", "a", " ", "=", " ", "0">>
LINE_ext_y ==
    <<"e", "x", "t", " ", "=", " ", "y">>
LINE_method_unknown ==
    <<"m", "e", "t", "h", "o", "d", " ", "=", " ", "n", "e", "w", "m", "a",
      "r", "k">>
LINE_comment ==
    <<"C", "r", "i", "t", "i", "c", "a", "l", " ", "d", "a", "m", "p", "i",
      "n", "g", " ", "r", "a", "t", "i", "o", ":">>
LINE_two_equals ==
    <<"f", "o", "l", "d", "e", "r", " ", "=", " ", "a", "=", "b">>
LINE_zeta_text ==
    <<"z", "e", "t", "a", " ", "=", " ", "a", "b", "c">>
SettingsLines ==
    {LINE_folder_users,
     LINE_unknown_key,
     LINE_zeta_007,
     LINE_ext_n,
     LINE_folder_hello,
     LINE_method_shake,
     LINE_zeta_high,
     LINE_zeta_zero,
     LINE_ext_y,
     LINE_method_unknown,
     LINE_comment,
     LINE_two_equals,
     LINE_zeta_text}
SettingsFiles == UNION {SeqsOfLen(SettingsLines, n) : n \in 0..MaxLines}

\* the settings files a user writes into the working directory
UserFiles ==
    {<<LINE_method_shake>>,
     <<LINE_ext_y, LINE_zeta_007>>,
     <<LINE_folder_hello, LINE_method_shake>>,
     <<LINE_zeta_text>>}

\* the time-history files: an .ahl file holds n samples; a .csv file holds a
\* time column of n samples and acceleration columns, some with NaN
TH_ahl ==
    [name |-> <<"a", ".", "a", "h", "l">>, n |-> 3, cols |-> <<>>]
TH_short ==
    [name |-> <<"s", ".", "a", "h", "l">>, n |-> 1, cols |-> <<>>]
TH_csv ==
    [name |-> <<"b", ".", "c", "s", "v">>, n |-> 3,
     cols |-> <<[name |-> <<"x">>, n |-> 3, nan |-> FALSE],
               [name |-> <<"y">>, n |-> 3, nan |-> TRUE]>>]
TH_nan ==
    [name |-> <<"n", ".", "c", "s", "v">>, n |-> 3, cols |-> <<[name |-> <<"x">>, n |-> 3, nan |-> TRUE]>>]
TH_txt ==
    [name |-> <<"c", ".", "t", "x", "t">>, n |-> 3, cols |-> <<>>]
TH_ahl_txt ==
    [name |-> <<"d", ".", "a", "h", "l", ".", "t", "x", "t">>, n |-> 3, cols |-> <<>>]
Listings ==
    {<<>>, <<TH_csv>>, <<TH_ahl, TH_csv, TH_txt>>, <<TH_ahl, TH_short, TH_csv>>,
     <<TH_nan, TH_ahl_txt>>}

NoAppCall == [op |-> "none"]
EmptyDirectory == [settings_file |-> None, rs_folder |-> FALSE, out |-> <<>>, dir |-> <<>>]

\* the lists, dictionaries and names handed to the table
L1(s) == List([i \in 1..Len(s) |-> Num(s[i])])
L2(rows) == List([i \in 1..Len(rows) |-> L1(rows[i])])
Entry(key, val) == [key |-> key, val |-> val]
Dict(entries) == [dict |-> entries]
TbColumns ==
    {L1(<<>>), L1(<<5, 5>>), L1(<<5, 5, 5>>), List(<<Num(5), Num(5), L1(<<5>>)>>)}
TbData ==
    {L2(<<<<1, 2, 3>>, <<3, 4, 5>>>>), L2(<<<<1, 2>>>>), L1(<<1, 2>>),
     L1(<<1, 2, 3>>), L2(<<<<1, 2, 3>>, <<1, 2>>>>)}
TbIndexes == {L1(<<0, 10>>), L1(<<1, 2, 3>>)}
TbNames == {<<"a", "b", "c">>, <<"a", "b">>}
\* the keys of the columns assigned to, and of the columns read and deleted
TbNewKeys == {"c", "Index"}
TbKeys == {"b", "d", "Index"}
Arguments(raw_data, index, column_names, index_name) ==
    [raw_data |-> raw_data, index |-> index, column_names |-> column_names,
     index_name |-> index_name]
D_abc == Dict(<<Entry("a", L1(<<1, 3>>)), Entry("b", L1(<<2, 4>>)), Entry("c", L1(<<3, 5>>))>>)
D_ragged == Dict(<<Entry("a", L1(<<1, 3>>)), Entry("b", L1(<<2, 4>>)), Entry("c", L1(<<>>))>>)
D_text == Dict(<<Entry("a", List(<<Str("a"), Num(3)>>)), Entry("b", L1(<<2, 4>>))>>)
D_a == Dict(<<Entry("a", L1(<<1, 2, 3>>))>>)
TbConstructions ==
    {Arguments(None, None, None, "Index"),
     Arguments(Some(D_abc), None, None, "Index"),
     Arguments(Some(D_ragged), None, None, "Index"),
     Arguments(Some(D_text), None, None, "Index"),
     Arguments(Some(D_a), None, None, "Index"),
     Arguments(Some(D_abc), Some(L1(<<0, 10>>)), None, "Index"),
     Arguments(Some(L2(<<<<1, 2, 3>>, <<3, 4, 5>>>>)), None, Some(<<"a", "b", "c">>), "Index"),
     Arguments(Some(L2(<<<<1, 2, 3>>, <<1, 2>>>>)), None, None, "Index"),
     Arguments(Some(L1(<<1, 2, 3>>)), None, Some(<<"a">>), "Index"),
     Arguments(None, Some(L1(<<0, 10>>)), None, "Row"),
     Arguments(None, Some(L1(<<0, 10>>)), Some(<<"Column1">>), "Index"),
     Arguments(None, None, Some(<<"a", "b">>), "Index"),
     Arguments(None, None, Some(<<"Row">>), "Index"),
     Arguments(None, None, Some(<<"Index">>), "Index")}
NoTbCall == [op |-> "none"]

\* what MotionHistory is called with: motion arrays without samples, of one,
\* two and three samples, and one that starts with nan; strictly increasing
\* times of two and three samples, equally spaced and not; whole time steps
Fl(k) == Some(QInt(k))
A_empty == Array1(<<>>)
A_one == Array1(<<Fl(1)>>)
A_two == Array1(<<Fl(1), Fl(3)>>)
A_nan == Array1(<<nan, Fl(1)>>)
A_three == Array1(<<Fl(1), Fl(3), Fl(2)>>)
T_two == Array1(<<Some(0), Some(1)>>)
T_three == Array1(<<Some(0), Some(1), Some(3)>>)
MhMotions == {A_empty, A_one, A_two, A_nan, A_three}
MhTimes == {T_two, Array1(<<Some(0), Some(2)>>), T_three,
            Array1(<<Some(0), Some(2), Some(4)>>)}
MhDts == {1, 2}
MhNpts == {None, Some(2)}
MhSkips == {{"time"}}
MhArguments(time_given, acc, vel, disp, dt) ==
    [time |-> time_given, acceleration |-> acc, velocity |-> vel,
     displacement |-> disp, dt |-> dt]
MhConstructions ==
    {MhArguments(None, None, None, None, None),
     MhArguments(None, Some(A_two), None, None, None),
     MhArguments(None, Some(A_three), None, None, None),
     MhArguments(None, Some(A_nan), None, None, None),
     MhArguments(None, Some(A_one), None, None, None),
     MhArguments(None, Some(A_empty), None, None, None),
     MhArguments(None, Some(A_two), None, Some(A_two), None),
     MhArguments(None, None, Some(A_two), Some(A_nan), None),
     MhArguments(None, None, Some(A_three), None, None),
     MhArguments(None, None, None, Some(A_three), None),
     MhArguments(Some(T_two), Some(A_two), None, None, None),
     MhArguments(Some(T_three), Some(A_two), None, None, None),
     MhArguments(Some(T_two), None, None, None, None),
     MhArguments(None, Some(A_three), None, None, Some(2)),
     MhArguments(None, None, None, None, Some(1)),
     MhArguments(Some(T_two), None, None, None, Some(1))}
\* the orders a set of column names can be iterated in
Orderings(S) ==
    {s \in [1..Cardinality(S) -> S] :
        \A i, j \in 1..Cardinality(S) : i # j => s[i] # s[j]}
\* nested getter calls the interpreter allows
RecursionLimit == 4
NoMhCall == [op |-> "none"]

Init ==
    /\ ci_pc = "idle"
    /\ ci_in = NoCall
    /\ ci_out = NoRet
    /\ pc = "idle"
    /\ entry = "none"
    /\ args = NoArgs
    /\ frqs = <<>>
    /\ loop = NoLoop
    /\ rs = <<>>
    /\ ret = NoRet
    /\ stdout = 0
    /\ settings = DEFAULT_SETTINGS
    /\ fs = EmptyDirectory
    /\ app_pc = "idle"
    /\ app_call = NoAppCall
    /\ app_ret = NoRet
    /\ table = NewTable("Index")
    /\ _invalid_column_names = {"Index"}
    /\ tb_call = NoTbCall
    /\ tb_ret = NoRet
    /\ tb_added = <<>>
    /\ tb_clean = TRUE
    /\ mh = None
    /\ mh_call = NoMhCall
    /\ mh_ret = NoRet

(***************************************************************************)
(* cumulative_integral, called and returned from                           *)
(***************************************************************************)
CallCumulativeIntegral ==
    /\ ci_pc = "idle"
    /\ pc = "idle"
    /\ \E y \in Ys, dx \in DxValues, initial \in InitialValues, method \in IntMethods :
         \E x \in Xs(Len(y)) :
            /\ ci_in' = [y |-> y, x |-> x, dx |-> dx, initial |-> initial,
                         method |-> method]
            /\ ci_out' = cumulative_integral(y, x, dx, initial, method)
    /\ ci_pc' = "returned"
    /\ UNCHANGED not_ci_vars

CiDone ==
    /\ ci_pc = "returned"
    /\ ci_pc' = "idle"
    /\ ci_in' = NoCall
    /\ ci_out' = NoRet
    /\ UNCHANGED not_ci_vars

(***************************************************************************)
(* get_asme_frequencies                                                    *)
(***************************************************************************)
CallGetAsmeFrequencies ==
    /\ pc = "idle"
    /\ ci_pc = "idle"
    /\ pc' = "asme_range"
    /\ entry' = "asme"
    /\ args' = NoArgs
    /\ frqs' = <<>>
    /\ loop' = [r |-> 1]
    /\ UNCHANGED <<rs, ret, stdout>>
    /\ UNCHANGED not_sp_vars

\* np.arange(*args) for the next (start, stop, step) of the zip
ArangeBegin ==
    /\ pc = "asme_range"
    /\ loop.r <= NRanges
    /\ LET start == RangeStart(loop.r)
           step == RangeStep(loop.r)
       IN loop' = [r |-> loop.r, i |-> 0, start |-> start, step |-> step,
                   n |-> ArangeLen(start, RangeStop(loop.r), step)]
    /\ pc' = "asme_fill"
    /\ UNCHANGED <<entry, args, frqs, rs, ret, stdout>>
    /\ UNCHANGED not_sp_vars

ArangeFill ==
    /\ pc = "asme_fill"
    /\ loop.i < loop.n
    /\ frqs' = Append(frqs, ArangeItem(loop.start, loop.step, loop.i))
    /\ loop' = [loop EXCEPT !.i = loop.i + 1]
    /\ UNCHANGED <<pc, entry, args, rs, ret, stdout>>
    /\ UNCHANGED not_sp_vars

ArangeEnd ==
    /\ pc = "asme_fill"
    /\ loop.i >= loop.n
    /\ pc' = "asme_range"
    /\ loop' = [r |-> loop.r + 1]
    /\ UNCHANGED <<entry, args, frqs, rs, ret, stdout>>
    /\ UNCHANGED not_sp_vars

\* frqs = np.append(frqs, frq_range[-1]); return frqs
AsmeAppendLast ==
    /\ pc = "asme_range"
    /\ loop.r > NRanges
    /\ frqs' = Append(frqs, RangeStop(NRanges))
    /\ IF entry = "asme"
       THEN /\ pc' = "returned"
            /\ ret' = [tag |-> "ok", frqs |-> frqs']
            /\ loop' = NoLoop
       ELSE \* back in get_default_frequencies: npts_low = 100 - len(frqs)
            /\ pc' = "geom"
            /\ ret' = ret
            /\ loop' = [r |-> 0, k |-> 1, n |-> 100 - Len(frqs'),
                        a |-> FFloor(Last(frqs')), b |-> 100, high |-> FALSE]
    /\ UNCHANGED <<entry, args, rs, stdout>>
    /\ UNCHANGED not_sp_vars

(***************************************************************************)
(* get_default_frequencies                                                 *)
(***************************************************************************)
CallGetDefaultFrequencies ==
    /\ pc = "idle"
    /\ ci_pc = "idle"
    /\ \E h \in BOOLEAN : args' = [high_frequency |-> h]
    /\ pc' = "asme_range"
    /\ entry' = "default"
    /\ frqs' = <<>>
    /\ loop' = [r |-> 1]
    /\ UNCHANGED <<rs, ret, stdout>>
    /\ UNCHANGED not_sp_vars

\* one element of [round(x) for x in np.geomspace(a, b, n + 1)[1:]]
GeomStep ==
    /\ pc = "geom"
    /\ loop.k <= loop.n
    /\ frqs' = Append(frqs, FInt(GeomRound(loop.a, loop.b, loop.n, loop.k)))
    /\ loop' = [loop EXCEPT !.k = loop.k + 1]
    /\ UNCHANGED <<pc, entry, args, rs, ret, stdout>>
    /\ UNCHANGED not_sp_vars

\* the 100 Hz extension is complete: extend further if high_frequency
GeomHighBegin ==
    /\ pc = "geom"
    /\ loop.k > loop.n
    /\ ~loop.high
    /\ args.high_frequency
    /\ loop' = [r |-> 0, k |-> 1, n |-> 15, a |-> FFloor(Last(frqs)),
                b |-> 1000, high |-> TRUE]
    /\ UNCHANGED <<pc, entry, args, frqs, rs, ret, stdout>>
    /\ UNCHANGED not_sp_vars

\* return frqs, to the caller of get_default_frequencies
DefaultReturn ==
    /\ pc = "geom"
    /\ loop.k > loop.n
    /\ loop.high \/ ~args.high_frequency
    /\ entry = "default"
    /\ pc' = "returned"
    /\ ret' = [tag |-> "ok", frqs |-> frqs]
    /\ loop' = NoLoop
    /\ UNCHANGED <<entry, args, frqs, rs, stdout>>
    /\ UNCHANGED not_sp_vars

(***************************************************************************)
(* response_spectrum                                                       *)
(***************************************************************************)
CallResponseSpectrum ==
    /\ pc = "idle"
    /\ ci_pc = "idle"
    /\ \E na \in 0..MaxSamples, nt \in 0..MaxSamples, z \in Zetas,
          h \in BOOLEAN, m \in Methods :
          args' = [n_acc |-> na, n_time |-> nt, zeta |-> z,
                   high_frequency |-> h, method |-> m]
    /\ pc' = "asme_range"
    /\ entry' = "rs"
    /\ frqs' = <<>>
    /\ loop' = [r |-> 1]
    /\ UNCHANGED <<rs, ret, stdout>>
    /\ UNCHANGED not_sp_vars

\* rs, _ = rs_func(acc, time, frqs, zeta): the solver up to its loop
SolverBegin ==
    /\ pc = "geom"
    /\ loop.k > loop.n
    /\ loop.high \/ ~args.high_frequency
    /\ entry = "rs"
    /\ LET e == SolverPrecheck(rs_func(args.method), args.n_acc, args.n_time)
       IN IF e # "none"
          THEN /\ pc' = "returned"
               /\ ret' = [tag |-> e]
               /\ loop' = NoLoop
               /\ rs' = rs
          ELSE /\ pc' = "solve"
               /\ ret' = ret
               /\ loop' = [r |-> 0, k |-> 1]
               /\ rs' = [j \in 1..Len(frqs) |-> 0]         \* rs = 0 * w
    /\ UNCHANGED <<entry, args, frqs, stdout>>
    /\ UNCHANGED not_sp_vars

\* for k, wn in enumerate(w): rs[k] = np.max(np.absolute(...))
SolverStep ==
    /\ pc = "solve"
    /\ loop.k <= Len(frqs)
    /\ LET solver == rs_func(args.method)
           e == SolverStepError(solver, args.n_acc)
       IN IF e # "none"
          THEN /\ pc' = "returned"
               /\ ret' = [tag |-> e]
               /\ loop' = NoLoop
               /\ rs' = rs
          ELSE /\ rs' = StoreAt(rs, loop.k,
                                Peak(solver, frqs[loop.k], args.zeta, args.n_acc))
               /\ loop' = [loop EXCEPT !.k = loop.k + 1]
               /\ UNCHANGED <<pc, ret>>
    /\ UNCHANGED <<entry, args, frqs, stdout>>
    /\ UNCHANGED not_sp_vars

\* print("RS done. ..."); return rs, frqs
SolverEnd ==
    /\ pc = "solve"
    /\ loop.k > Len(frqs)
    /\ stdout' = stdout + 1
    /\ pc' = "returned"
    /\ ret' = [tag |-> "ok", rs |-> rs, frqs |-> frqs]
    /\ loop' = NoLoop
    /\ UNCHANGED <<entry, args, frqs, rs>>
    /\ UNCHANGED not_sp_vars

\* the caller drops the result; the next call starts afresh
SpDone ==
    /\ pc = "returned"
    /\ pc' = "idle"
    /\ entry' = "none"
    /\ args' = NoArgs
    /\ frqs' = <<>>
    /\ loop' = NoLoop
    /\ rs' = <<>>
    /\ ret' = NoRet
    /\ stdout' = 0
    /\ UNCHANGED not_sp_vars

(***************************************************************************)
(* autoRS/__init__.py: get_settings and generate_rs, and what the user     *)
(* does to the working directory between the runs                          *)
(***************************************************************************)
CallGetSettings ==
    /\ app_pc = "idle"
    /\ pc = "idle"
    /\ ci_pc = "idle"
    /\ \E lines \in SettingsFiles :
          LET got == get_settings(lines)
          IN /\ app_call' = [op |-> "get_settings", lines |-> lines,
                             fresh |-> settings = DEFAULT_SETTINGS]
             /\ settings' = IF got.tag = "ok" THEN got.val ELSE settings
             /\ app_ret' = [tag |-> got.tag, printed |-> <<>>]
    /\ app_pc' = "returned"
    /\ UNCHANGED fs
    /\ UNCHANGED not_app_vars

CallGenerateRs ==
    /\ app_pc = "idle"
    /\ pc = "idle"
    /\ ci_pc = "idle"
    /\ LET left == generate_rs(settings, fs)
       IN /\ settings' = left.settings
          /\ fs' = left.cwd
          /\ app_ret' = [tag |-> left.tag, printed |-> left.printed]
    /\ app_call' = [op |-> "generate_rs", found |-> SettingsDetected(fs)]
    /\ app_pc' = "returned"
    /\ UNCHANGED not_app_vars

AppDone ==
    /\ app_pc = "returned"
    /\ app_pc' = "idle"
    /\ app_call' = NoAppCall
    /\ app_ret' = NoRet
    /\ UNCHANGED <<settings, fs>>
    /\ UNCHANGED not_app_vars

\* the user writes a settings file into the working directory
EditSettingsFile ==
    /\ app_pc = "idle"
    /\ \E lines \in UserFiles : fs' = [fs EXCEPT !.settings_file = Some(lines)]
    /\ UNCHANGED <<settings, app_pc, app_call, app_ret>>
    /\ UNCHANGED not_app_vars

\* the user removes the settings file
RemoveSettingsFile ==
    /\ app_pc = "idle"
    /\ fs.settings_file # None
    /\ fs' = [fs EXCEPT !.settings_file = None]
    /\ UNCHANGED <<settings, app_pc, app_call, app_ret>>
    /\ UNCHANGED not_app_vars

\* the user removes the folder RS with what is in it
RemoveRsFolder ==
    /\ app_pc = "idle"
    /\ fs.rs_folder
    /\ fs' = [fs EXCEPT !.rs_folder = FALSE, !.out = <<>>]
    /\ UNCHANGED <<settings, app_pc, app_call, app_ret>>
    /\ UNCHANGED not_app_vars

\* the user puts time-history files into the working directory
PlaceTimeHistories ==
    /\ app_pc = "idle"
    /\ \E d \in Listings : fs' = [fs EXCEPT !.dir = d]
    /\ UNCHANGED <<settings, app_pc, app_call, app_ret>>
    /\ UNCHANGED not_app_vars

(***************************************************************************)
(* autoRS/core/table.py: one FloatTable and the calls made on it.  A call  *)
(* is one step: the library is single-threaded.  tb_added is kept beside   *)
(* the table: the names of its columns in the order the calls that         *)
(* succeeded added them.  tb_clean tells that no call on the table has     *)
(* raised since it was constructed.                                        *)
(***************************************************************************)
WithoutName(names, key) == SelectSeq(names, LAMBDA n : n # key)

TableConstruct ==
    /\ \E c \in TbConstructions :
          \E new \in {__init__(_invalid_column_names, c.raw_data, c.index,
                              c.column_names, c.index_name)} :
             /\ table' = IF new.r.tag = "ok" THEN new.t ELSE table
             /\ _invalid_column_names' = new.invalid
             /\ tb_call' = [op |-> "FloatTable", arg |-> c, before |-> table,
                            added |-> tb_added]
             /\ tb_ret' = new.r
             /\ tb_clean' = IF new.r.tag = "ok" THEN TRUE ELSE tb_clean
             /\ tb_added' = IF new.r.tag = "ok" THEN column_names_of(new.t)
                            ELSE tb_added
    /\ UNCHANGED not_tb_vars

TableSetData ==
    /\ \E raw_data \in TbData :
          \E out \in {set_data(table, raw_data)} :
             /\ table' = out.t
             /\ tb_call' = [op |-> "data", arg |-> raw_data, before |-> table,
                            added |-> tb_added]
             /\ tb_ret' = out.r
             /\ tb_clean' = (tb_clean /\ out.r.tag = "ok")
             /\ tb_added' = IF out.r.tag = "ok" THEN column_names_of(out.t)
                            ELSE tb_added
    /\ UNCHANGED _invalid_column_names
    /\ UNCHANGED not_tb_vars

TableSetIndex ==
    /\ \E raw_index \in TbIndexes :
          \E out \in {set_index(table, raw_index)} :
             /\ table' = out.t
             /\ tb_call' = [op |-> "index", arg |-> raw_index, before |-> table,
                            added |-> tb_added]
             /\ tb_ret' = out.r
             /\ tb_clean' = (tb_clean /\ out.r.tag = "ok")
    /\ UNCHANGED <<_invalid_column_names, tb_added>>
    /\ UNCHANGED not_tb_vars

TableSetColumnNames ==
    /\ \E column_names \in TbNames :
          \E out \in {set_column_names(table, column_names)} :
             /\ table' = out.t
             /\ tb_call' = [op |-> "column_names", arg |-> column_names,
                            before |-> table, added |-> tb_added]
             /\ tb_ret' = out.r
             /\ tb_clean' = (tb_clean /\ out.r.tag = "ok")
             /\ tb_added' = IF out.r.tag = "ok" THEN column_names_of(out.t)
                            ELSE tb_added
    /\ UNCHANGED _invalid_column_names
    /\ UNCHANGED not_tb_vars

TableSetItem ==
    /\ \E key \in TbNewKeys, value \in TbColumns :
          \E out \in {__setitem__(table, key, value)} :
             /\ table' = out.t
             /\ tb_call' = [op |-> "setitem", arg |-> [key |-> key, value |-> value],
                            before |-> table, added |-> tb_added]
             /\ tb_ret' = out.r
             /\ tb_clean' = (tb_clean /\ out.r.tag = "ok")
             /\ tb_added' = IF /\ out.r.tag = "ok"
                               /\ key # table._index_name
                               /\ \A i \in 1..Len(tb_added) : tb_added[i] # key
                            THEN Append(tb_added, key)
                            ELSE tb_added
    /\ UNCHANGED _invalid_column_names
    /\ UNCHANGED not_tb_vars

TableGetItem ==
    /\ \E key \in TbKeys :
          /\ tb_call' = [op |-> "getitem", arg |-> key, before |-> table,
                         added |-> tb_added]
          /\ tb_ret' = __getitem__(table, key)
          /\ tb_clean' = (tb_clean /\ tb_ret'.tag = "ok")
    /\ UNCHANGED <<table, _invalid_column_names, tb_added>>
    /\ UNCHANGED not_tb_vars

TableDelItem ==
    /\ \E key \in TbKeys :
          \E out \in {__delitem__(table, key)} :
             /\ table' = out.t
             /\ tb_call' = [op |-> "delitem", arg |-> key, before |-> table,
                            added |-> tb_added]
             /\ tb_ret' = out.r
             /\ tb_clean' = (tb_clean /\ out.r.tag = "ok")
             /\ tb_added' = IF out.r.tag = "ok" THEN WithoutName(tb_added, key)
                            ELSE tb_added
    /\ UNCHANGED _invalid_column_names
    /\ UNCHANGED not_tb_vars

TablePop ==
    /\ \E key \in TbKeys :
          \E out \in {pop(table, key)} :
             /\ table' = out.t
             /\ tb_call' = [op |-> "pop", arg |-> key, before |-> table,
                            added |-> tb_added]
             /\ tb_ret' = out.r
             /\ tb_clean' = (tb_clean /\ out.r.tag = "ok")
             /\ tb_added' = IF out.r.tag = "ok" THEN WithoutName(tb_added, key)
                            ELSE tb_added
    /\ UNCHANGED _invalid_column_names
    /\ UNCHANGED not_tb_vars

TablePopItem ==
    /\ \E out \in {popitem(table)} :
          /\ table' = out.t
          /\ tb_call' = [op |-> "popitem", arg |-> None, before |-> table,
                         added |-> tb_added]
          /\ tb_ret' = out.r
          /\ tb_clean' = (tb_clean /\ out.r.tag = "ok")
          /\ tb_added' = IF out.r.tag = "ok" THEN WithoutName(tb_added, out.r.val[1])
                         ELSE tb_added
    /\ UNCHANGED _invalid_column_names
    /\ UNCHANGED not_tb_vars

TableResetIndex ==
    /\ \E out \in {reset_index(table)} :
          /\ table' = out.t
          /\ tb_call' = [op |-> "reset_index", arg |-> None, before |-> table,
                         added |-> tb_added]
          /\ tb_ret' = out.r
          /\ tb_clean' = (tb_clean /\ out.r.tag = "ok")
    /\ UNCHANGED <<_invalid_column_names, tb_added>>
    /\ UNCHANGED not_tb_vars


(***************************************************************************)
(* MotionHistory: every constructor call, getter, setter and method is one *)
(* step.  mh is None until the MotionHistory under test is constructed.    *)
(***************************************************************************)
MhCall(op, arg, steps) == [op |-> op, arg |-> arg, before |-> mh, steps |-> steps]

\* the orders the setter that __init__ calls can reset the other columns in
InitOrders(name) ==
    IF name = None THEN {<<>>} ELSE Orderings(column_set \ {"time", name[1]})

MhConstruct ==
    /\ mh = None
    /\ \E c \in MhConstructions :
          \E order \in InitOrders(Stored(c.acceleration, c.velocity, c.displacement)) :
             \E new \in {MotionHistory(_invalid_column_names, c.time, c.acceleration,
                                       c.velocity, c.displacement, c.dt, order)} :
                /\ mh' = IF new.r.tag = "ok" THEN Some(new.t) ELSE mh
                /\ _invalid_column_names' = new.invalid
                /\ mh_call' = MhCall("MotionHistory", c, 0)
                /\ mh_ret' = new.r
    /\ UNCHANGED not_mh_vars

MhSetTime ==
    /\ mh # None
    /\ \E value \in MhTimes :
          \E out \in {set_time(mh[1], value)} :
             /\ mh' = Some(out.t)
             /\ mh_call' = MhCall("time", value, 0)
             /\ mh_ret' = out.r
    /\ UNCHANGED _invalid_column_names
    /\ UNCHANGED not_mh_vars

MhSetAcceleration ==
    /\ mh # None
    /\ \E value \in MhMotions, order \in Orderings({"velocity", "displacement"}) :
          \E out \in {set_motion(mh[1], "acceleration", value, order)} :
             /\ mh' = Some(out.t)
             /\ mh_call' = MhCall("set acceleration", value, 0)
             /\ mh_ret' = out.r
    /\ UNCHANGED _invalid_column_names
    /\ UNCHANGED not_mh_vars

MhSetVelocity ==
    /\ mh # None
    /\ \E value \in MhMotions, order \in Orderings({"acceleration", "displacement"}) :
          \E out \in {set_motion(mh[1], "velocity", value, order)} :
             /\ mh' = Some(out.t)
             /\ mh_call' = MhCall("set velocity", value, 0)
             /\ mh_ret' = out.r
    /\ UNCHANGED _invalid_column_names
    /\ UNCHANGED not_mh_vars

MhSetDisplacement ==
    /\ mh # None
    /\ \E value \in MhMotions, order \in Orderings({"acceleration", "velocity"}) :
          \E out \in {set_motion(mh[1], "displacement", value, order)} :
             /\ mh' = Some(out.t)
             /\ mh_call' = MhCall("set displacement", value, 0)
             /\ mh_ret' = out.r
    /\ UNCHANGED _invalid_column_names
    /\ UNCHANGED not_mh_vars

MhGetAcceleration ==
    /\ mh # None
    /\ \E out \in {acceleration(mh[1], RecursionLimit)} :
          /\ mh' = Some(out.t)
          /\ mh_call' = MhCall("acceleration", None, out.steps)
          /\ mh_ret' = out.r
    /\ UNCHANGED _invalid_column_names
    /\ UNCHANGED not_mh_vars

MhGetVelocity ==
    /\ mh # None
    /\ \E out \in {velocity(mh[1], RecursionLimit)} :
          /\ mh' = Some(out.t)
          /\ mh_call' = MhCall("velocity", None, out.steps)
          /\ mh_ret' = out.r
    /\ UNCHANGED _invalid_column_names
    /\ UNCHANGED not_mh_vars

MhGetDisplacement ==
    /\ mh # None
    /\ \E out \in {displacement(mh[1], RecursionLimit)} :
          /\ mh' = Some(out.t)
          /\ mh_call' = MhCall("displacement", None, out.steps)
          /\ mh_ret' = out.r
    /\ UNCHANGED _invalid_column_names
    /\ UNCHANGED not_mh_vars

MhTimeFromDt ==
    /\ mh # None
    /\ \E dt \in MhDts, npts \in MhNpts :
          \E out \in {time_from_dt(mh[1], dt, npts)} :
             /\ mh' = Some(out.t)
             /\ mh_call' = MhCall("time_from_dt", [dt |-> dt, npts |-> npts], 0)
             /\ mh_ret' = out.r
    /\ UNCHANGED _invalid_column_names
    /\ UNCHANGED not_mh_vars

\* reset()
MhReset ==
    /\ mh # None
    /\ \E new \in {reset_table(_invalid_column_names)} :
          /\ mh' = IF new.r.tag = "ok" THEN Some([mh[1] EXCEPT !._table = new.t])
                   ELSE mh
          /\ _invalid_column_names' = new.invalid
          /\ mh_call' = MhCall("reset", None, 0)
          /\ mh_ret' = new.r
    /\ UNCHANGED not_mh_vars

\* reset(skip_columns)
MhResetColumns ==
    /\ mh # None
    /\ \E skip_columns \in MhSkips :
          \E order \in Orderings(column_set \ skip_columns) :
             \E out \in {reset_columns(mh[1], order)} :
                /\ mh' = Some(out.t)
                /\ mh_call' = MhCall("reset", Some(skip_columns), 0)
                /\ mh_ret' = out.r
    /\ UNCHANGED _invalid_column_names
    /\ UNCHANGED not_mh_vars

SpNext ==
    \/ CallGetAsmeFrequencies
    \/ CallGetDefaultFrequencies
    \/ CallResponseSpectrum
    \/ ArangeBegin
    \/ ArangeFill
    \/ ArangeEnd
    \/ AsmeAppendLast
    \/ GeomStep
    \/ GeomHighBegin
    \/ DefaultReturn
    \/ SolverBegin
    \/ SolverStep
    \/ SolverEnd
    \/ SpDone

CiNext ==
    \/ CallCumulativeIntegral
    \/ CiDone

Next ==
    \/ CallCumulativeIntegral
    \/ CiDone
    \/ CallGetAsmeFrequencies
    \/ CallGetDefaultFrequencies
    \/ CallResponseSpectrum
    \/ ArangeBegin
    \/ ArangeFill
    \/ ArangeEnd
    \/ AsmeAppendLast
    \/ GeomStep
    \/ GeomHighBegin
    \/ DefaultReturn
    \/ SolverBegin
    \/ SolverStep
    \/ SolverEnd
    \/ SpDone

SettingsNext ==
    \/ CallGetSettings
    \/ AppDone

AppNext ==
    \/ CallGenerateRs
    \/ AppDone
    \/ EditSettingsFile
    \/ RemoveSettingsFile
    \/ RemoveRsFolder
    \/ PlaceTimeHistories

\* a program calling the library, one call at a time
MotionNext ==
    \/ MhConstruct
    \/ MhSetTime
    \/ MhSetAcceleration
    \/ MhSetVelocity
    \/ MhSetDisplacement
    \/ MhGetAcceleration
    \/ MhGetVelocity
    \/ MhGetDisplacement
    \/ MhTimeFromDt
    \/ MhReset
    \/ MhResetColumns

TableNext ==
    \/ TableConstruct
    \/ TableSetData
    \/ TableSetIndex
    \/ TableSetColumnNames
    \/ TableSetItem
    \/ TableGetItem
    \/ TableDelItem
    \/ TablePop
    \/ TablePopItem
    \/ TableResetIndex

\* a program calling the library, one call at a time
Spec == Init /\ [][Next]_vars
\* a program calling only cumulative_integral
SpecIntegral == Init /\ [][CiNext]_vars
\* a program calling only the functions of autoRS/spectrum.py
SpecSpectrum == Init /\ [][SpNext]_vars
\* a program calling only get_settings
SpecSettings == Init /\ [][SettingsNext]_vars
\* runs of generate_rs in a working directory the user prepares
SpecApp == Init /\ [][AppNext]_vars
\* a program working on one FloatTable
SpecTable == Init /\ [][TableNext]_vars
\* the MotionHistory alone
SpecMotion == Init /\ [][MotionNext]_vars

(***************************************************************************)
(* Properties of cumulative_integral                                       *)
(***************************************************************************)
CiReturned == ci_pc = "returned"
CiArray == CiReturned /\ ci_out.tag = "ok"

\* C1: whenever cumulative_integral returns an array, for any method, any
\* initial value and x absent, equally or unequally spaced, the first entry of
\* the array equals the initial value exactly.
C1_FirstEntryIsInitial == CiArray => ci_out.val[1] = QInt(ci_in.initial)

C1_Witness ==
    /\ CiArray
    /\ ci_in.initial = 10
    /\ ci_in.method = "simpson 3/8"
    /\ Len(ci_in.y) >= 5
    /\ ci_in.x # None

\* C2: whenever cumulative_integral returns an array, the array has exactly
\* len(y) entries, for every length of y (zero included), every method and
\* with or without x.
C2_SameLengthAsY == CiArray => Len(ci_out.val) = Len(ci_in.y)

\* C3: a call with a y of exactly one sample raises ValueError, for every
\* method and whatever x, dx and initial are; no array is returned.
C3_SingleSampleRaises ==
    (CiReturned /\ Len(ci_in.y) = 1) => ci_out.tag = "ValueError"

C3_Witness ==
    /\ CiReturned
    /\ Len(ci_in.y) = 1
    /\ ci_in.method = "simpson 3/8"
    /\ ci_in.x # None
    /\ ci_out.tag = "ValueError"

\* C4: for a y of two samples every requested method gives what trapezoidal
\* gives; for a y of three samples simpson 3/8 gives what simpson 1/3 gives.
C4_AdaptiveDowngrade ==
    CiReturned =>
        /\ Len(ci_in.y) = 2 =>
              ci_out = cumulative_integral(ci_in.y, ci_in.x, ci_in.dx,
                                           ci_in.initial, "trapezoidal")
        /\ (Len(ci_in.y) = 3 /\ ci_in.method = "simpson 3/8") =>
              ci_out = cumulative_integral(ci_in.y, ci_in.x, ci_in.dx,
                                           ci_in.initial, "simpson 1/3")

C4_Witness ==
    /\ CiArray
    /\ Len(ci_in.y) = 2
    /\ ci_in.method = "simpson 3/8"
    /\ ci_in.x = None
    /\ ci_in.y[1] # ci_in.y[2]

\* The standard deviation of the successive differences of the whole
\* numbers x is above 2% of their mean: with m differences d of sum S,
\* std^2 = (m * sum(d^2) - S^2) / m^2 and mean = S / m, so for S >= 0 the
\* comparison is 2500 * (m * sum(d^2) - S^2) > S^2; for S < 0 it is true.
RECURSIVE SumInts(_)
SumInts(s) == IF s = <<>> THEN 0 ELSE s[1] + SumInts(Tail(s))
StdAboveTwoPercentOfMean(x) ==
    LET d == [i \in 1..(Len(x) - 1) |-> x[i + 1] - x[i]]
        S == SumInts(d)
        SS == SumInts([i \in 1..Len(d) |-> d[i] * d[i]])
    IN /\ d # <<>>
       /\ \/ S < 0
          \/ 2500 * (Len(d) * SS - S * S) > S * S

\* The trapezoidal rule over the abscissa x: r[1] = initial and
\* r[i+1] = r[i] + (x[i+1] - x[i]) * (y[i] + y[i+1]) / 2.
RECURSIVE TrapezoidOverX(_, _, _, _)
TrapezoidOverX(y, x, initial, n) ==
    IF n = 1 THEN <<QInt(initial)>>
    ELSE LET r == TrapezoidOverX(y, x, initial, n - 1)
         IN Append(r, QAdd(r[n - 1],
                           QNorm((x[n] - x[n - 1]) * (y[n - 1] + y[n]), 2)))

\* C5: when an x is supplied whose successive differences have a standard
\* deviation above 2% of their mean, the result is, for every requested
\* method, the trapezoidal rule evaluated with the actual x spacings.
C5_UnequalSpacingForcesTrapezoid ==
    (/\ CiReturned
     /\ ci_in.x # None
     /\ Len(ci_in.x[1]) = Len(ci_in.y)
     /\ StdAboveTwoPercentOfMean(ci_in.x[1]))
    => ci_out = Ok(TrapezoidOverX(ci_in.y, ci_in.x[1], ci_in.initial, Len(ci_in.y)))

C5_Witness ==
    /\ CiArray
    /\ ci_in.x = Some(<<1, 5, 6>>)
    /\ ci_in.y = <<1, 3, 1>>
    /\ ci_in.method = "simpson 3/8"
    /\ ci_out.val[3] # cumulative_integral(ci_in.y, None, <<5, 2>>, ci_in.initial,
                                           "simpson 1/3").val[3]

(***************************************************************************)
(* Properties of the functions of autoRS/spectrum.py                       *)
(***************************************************************************)
SpReturned(e) == pc = "returned" /\ entry = e

\* what response_spectrum returns or raises, given the solver it runs and
\* the frequency grid
RsOutcome(solver, a, grid) ==
    IF SolverPrecheck(solver, a.n_acc, a.n_time) # "none"
    THEN Raise(SolverPrecheck(solver, a.n_acc, a.n_time))
    ELSE IF grid # <<>> /\ SolverStepError(solver, a.n_acc) # "none"
    THEN Raise(SolverStepError(solver, a.n_acc))
    ELSE [tag |-> "ok", frqs |-> grid,
          rs |-> [k \in 1..Len(grid) |-> Peak(solver, grid[k], a.zeta, a.n_acc)]]

\* C6: an unknown method name is no error: response_spectrum with a method
\* outside its table behaves as with the default method fft, and
\* cumulative_integral with an unknown method name behaves as with
\* simpson 1/3, downgrades by length included.
C6_UnknownMethodIsDefault ==
    /\ (CiReturned /\ ci_in.method \notin integration_methods) =>
          ci_out = cumulative_integral(ci_in.y, ci_in.x, ci_in.dx, ci_in.initial,
                                       "simpson 1/3")
    /\ (SpReturned("rs") /\ args.method \notin RS_METHODS) =>
          ret = RsOutcome("fft", args, frqs)

C6_Witness ==
    /\ SpReturned("rs")
    /\ args.method = "newmark"
    /\ ret.tag = "ok"
    /\ ret.rs[1].solver = "fft"

\* the frequencies a and b differ by at most 2^-40
Near(a, b) ==
    IF BLess(a, b) THEN BLeq(BSub(b, a), BShiftLeft(<<1>>, 20))
    ELSE BLeq(BSub(a, b), BShiftLeft(<<1>>, 20))
\* f lies in the half-open range r: start <= f < stop
InRange(f, r) == BLeq(RangeStart(r), f) /\ BLess(f, RangeStop(r))
RangeOf(f) == CHOOSE r \in 1..NRanges : InRange(f, r)

\* C7: get_asme_frequencies returns a sequence that starts with 0.1, ends
\* with 34, has at least 73 points and is built from the eight half-open
\* ranges (0.1,3)/0.1 ... (22,34)/3 followed by 34: every point but the last
\* lies in one of the ranges, each range starts at its lower breakpoint and
\* advances by its increment, and the ranges follow each other in order.
C7_AsmeFrequencies ==
    SpReturned("asme") =>
        LET g == ret.frqs
            n == Len(g)
        IN /\ n >= 73
           /\ g[1] = FLit(1, 10)
           /\ g[n] = FInt(34)
           /\ \A i \in 1..(n - 1) : \E r \in 1..NRanges : InRange(g[i], r)
           /\ RangeOf(g[n - 1]) = NRanges
           /\ \A i \in 1..(n - 2) :
                 LET r == RangeOf(g[i])
                 IN IF InRange(g[i + 1], r)
                    THEN BLess(g[i], g[i + 1]) /\ Near(BSub(g[i + 1], g[i]), RangeStep(r))
                    ELSE r < NRanges /\ g[i + 1] = RangeStart(r + 1)

C7_Witness == SpReturned("asme") /\ ret.tag = "ok" /\ Len(ret.frqs) = 77

\* C8: get_default_frequencies(False) has exactly 100 points, starts at 0.1
\* and ends at 100; get_default_frequencies(True) is that same sequence
\* followed by exactly 15 further points, the last being 1000.
C8_DefaultFrequencies ==
    SpReturned("default") =>
        LET g == ret.frqs
        IN /\ Len(g) = IF args.high_frequency THEN 115 ELSE 100
           /\ g[1] = FLit(1, 10)
           /\ g[100] = FInt(100)
           /\ SubSeq(g, 1, 100) = Grid100
           /\ args.high_frequency => g[115] = FInt(1000)

C8_Witness ==
    /\ SpReturned("default")
    /\ args.high_frequency
    /\ Len(ret.frqs) = 115
    /\ ret.frqs[101] = FInt(117)

\* C9: the grid get_default_frequencies returns is strictly ascending for
\* both values of high_frequency: every element is greater than the one
\* before it, across the range boundaries and the rounded extensions too.
C9_StrictlyAscending ==
    SpReturned("default") =>
        \A i \in 1..(Len(ret.frqs) - 1) : FLess(ret.frqs[i], ret.frqs[i + 1])

C9_Witness ==
    /\ SpReturned("default")
    /\ args.high_frequency
    /\ \E i \in 1..(Len(ret.frqs) - 1) :
          /\ ret.frqs[i + 1] = FLit(36, 10)
          /\ FLess(FLit(359, 100), ret.frqs[i])

\* C10: response_spectrum returns a response sequence and a frequency
\* sequence of equal length, one response per point of
\* get_default_frequencies(high_frequency), in grid order: the k-th response
\* is the peak the selected solver computes for the k-th grid frequency, and
\* the returned frequency sequence is the grid.
C10_PairedInGridOrder ==
    (SpReturned("rs") /\ ret.tag = "ok") =>
        /\ Len(ret.rs) = Len(ret.frqs)
        /\ Len(ret.frqs) = IF args.high_frequency THEN 115 ELSE 100
        /\ ret.frqs = frqs
        /\ SubSeq(ret.frqs, 1, 100) = Grid100
        /\ \A k \in 1..Len(ret.frqs) :
              ret.rs[k] = Peak(rs_func(args.method), frqs[k], args.zeta, args.n_acc)
        /\ \A k \in 1..(Len(ret.frqs) - 1) : FLess(ret.frqs[k], ret.frqs[k + 1])

C10_Witness ==
    /\ SpReturned("rs")
    /\ ret.tag = "ok"
    /\ args.method = "shake"
    /\ args.high_frequency
    /\ ret.rs[115].f = FInt(1000)
    /\ ret.rs[1].f = FLit(1, 10)

(***************************************************************************)
(* Properties of response_spectrum: its checks of the arguments and its    *)
(* effects                                                                 *)
(***************************************************************************)
\* C11: a damping ratio outside the open interval (0, 1), here 100 percent,
\* passed to response_spectrum is rejected whatever the method: the call
\* does not return a spectrum.
C11_InvalidZetaRejected ==
    (SpReturned("rs") /\ ~(0 < args.zeta /\ args.zeta < 100)) => ret.tag # "ok"

\* C12: response_spectrum called with acc and time of differing lengths
\* fails, whatever the method, and returns no spectrum.
C12_LengthMismatchRejected ==
    (SpReturned("rs") /\ args.n_acc # args.n_time) => ret.tag # "ok"

\* C13: response_spectrum called with an acc of fewer than 2 samples fails,
\* whatever the method and whatever the length of time, in particular when
\* acc has 1 sample and time has 2 or more.
C13_ShortSignalRejected ==
    (SpReturned("rs") /\ args.n_acc < 2) => ret.tag # "ok"

\* C14: response_spectrum performs no I/O: when it has returned, nothing has
\* been written to the standard output.
C14_NoOutputWritten == SpReturned("rs") => stdout = 0

(***************************************************************************)
(* Properties of the application, autoRS/__init__.py                       *)
(***************************************************************************)
AppReturned(op) == app_pc = "returned" /\ app_call.op = op

\* C16: the method chosen in the settings file is the method used: in every
\* output file, every spectrum was computed by the solver of the method the
\* header of the file names.
C16_HeaderMethodComputedTheData ==
    \A name \in DOMAIN fs.out :
        \A i \in 1..Len(fs.out[name].cols) :
            fs.out[name].cols[i].data.solver = fs.out[name].header.method

\* what each line of the settings files stands for: the setting it gives, as
\* the program is to hold it; nothing for a line that is no setting.  A zeta
\* that is no number is NotANumber; the key of a line is what stands before
\* its last "=".
NotANumber == <<>>
HELLO == <<"h", "e", "l", "l", "o">>
USERS == <<"C", ":", "\\", "U", "s", "e", "r", "s">>
Meaning(line) ==
    CASE line = LINE_folder_users -> [folder |-> USERS]
      [] line = LINE_folder_hello -> [folder |-> HELLO]
      [] line = LINE_zeta_007 -> [zeta |-> <<7, 2>>]
      [] line = LINE_zeta_high -> [zeta |-> DEFAULT_SETTINGS.zeta]
      [] line = LINE_zeta_zero -> [zeta |-> DEFAULT_SETTINGS.zeta]
      [] line = LINE_zeta_text -> [zeta |-> NotANumber]
      [] line = LINE_ext_n -> [ext |-> FALSE]
      [] line = LINE_ext_y -> [ext |-> TRUE]
      [] line = LINE_method_shake -> [method |-> "shake"]
      [] line = LINE_method_unknown -> [method |-> DEFAULT_SETTINGS.method]
      [] line = LINE_unknown_key -> <<>>
      [] line = LINE_comment -> <<>>
      [] line = LINE_two_equals -> <<>>

\* the setting k a file gives: that of its last line for k, or the default
ExpectedSetting(lines, k) ==
    LET at == {i \in 1..Len(lines) : k \in DOMAIN Meaning(lines[i])}
    IN IF at = {} THEN DEFAULT_SETTINGS[k] ELSE Meaning(lines[Max(at)])[k]

\* C17: after get_settings on a settings file whose zeta, if present, is a
\* number, the settings have exactly the keys folder, zeta, ext, method;
\* zeta is strictly between 0 and 1, ext is a boolean, method is an available
\* method; each key holds the valid value the file gives for it and the
\* default otherwise, whatever the settings were before.
C17_SettingsAreCleaned ==
    (AppReturned("get_settings")
     /\ ExpectedSetting(app_call.lines, "zeta") # NotANumber)
    => /\ app_ret.tag = "ok"
       /\ DOMAIN settings = ALLOWED_SETTING_KEYS
       /\ InUnitInterval(settings.zeta)
       /\ settings.ext \in BOOLEAN
       /\ settings.method \in RS_METHODS
       /\ \A k \in ALLOWED_SETTING_KEYS : settings[k] = ExpectedSetting(app_call.lines, k)

C17_Witness ==
    /\ AppReturned("get_settings")
    /\ ~app_call.fresh
    /\ app_call.lines = <<LINE_zeta_high, LINE_ext_y>>
    /\ settings = [DEFAULT_SETTINGS EXCEPT !.ext = TRUE]

\* this step is a run of generate_rs
GenerateRsStep == app_pc = "idle" /\ app_pc' = "returned" /\ app_call'.op = "generate_rs"
\* this step creates the folder RS, or creates or rewrites a file in it
CreatesOutput ==
    \/ fs'.rs_folder /\ ~fs.rs_folder
    \/ \E name \in DOMAIN fs'.out : name \notin DOMAIN fs.out \/ fs'.out[name] # fs.out[name]

\* C18: a run of generate_rs that finds no settings file writes the default
\* settings file, from which the default settings are read back, and returns
\* leaving everything else as it was: no RS folder, no output.  The RS folder
\* and the output files are created only by a run that finds the settings
\* file; the run that finds the file the first run wrote creates the RS
\* folder and, when it ends without error, an output for every .ahl and .csv
\* time history with valid data.
C18_OutputOnlyWithSettingsFile ==
    [][/\ (GenerateRsStep /\ fs.settings_file = None) =>
              /\ fs' = [fs EXCEPT !.settings_file = Some(write_default_settings)]
              /\ get_settings(fs'.settings_file[1]) = Ok(DEFAULT_SETTINGS)
              /\ app_ret'.tag = "ok"
              /\ settings' = settings
       /\ CreatesOutput => (GenerateRsStep /\ fs.settings_file # None)
       /\ (GenerateRsStep /\ fs.settings_file = Some(write_default_settings)) =>
              /\ fs'.rs_folder
              /\ app_ret'.tag = "ok" =>
                    \A i \in 1..Len(fs.dir) :
                        fs.dir[i] \in {TH_ahl, TH_csv} =>
                            RsName(fs.dir[i].name) \in DOMAIN fs'.out
      ]_vars

C18_Witness ==
    /\ AppReturned("generate_rs")
    /\ app_call.found
    /\ app_ret.tag = "ok"
    /\ fs.settings_file = Some(write_default_settings)
    /\ fs.rs_folder
    /\ fs.dir = <<TH_csv>>
    /\ DOMAIN fs.out = {RsName(TH_csv.name)}

(***************************************************************************)
(* Properties of FloatTable                                                *)
(***************************************************************************)
TbReturned(op) == tb_call.op = op
\* the number of columns of a list handed over as data: a list of numbers is
\* one column, a list of rows has the columns of its rows
ColumnsGiven(raw_data) ==
    IF \A i \in 1..Len(raw_data.list) : IsNum(raw_data.list[i])
    THEN 1
    ELSE Len(raw_data.list[1].list)
\* the last call was given data of a size that does not fit what the table
\* defined: an index of another length than the index, data with another
\* number of columns than the column names, a column of another length than
\* the index, or a dictionary whose columns differ in length
IndexOfOtherLength ==
    /\ TbReturned("index")
    /\ tb_call.before._index # None
    /\ Len(tb_call.arg.list) # len(tb_call.before._index[1])
DataOfOtherWidth ==
    /\ TbReturned("data")
    /\ _parse_data_not_dict(tb_call.arg).tag = "ok"
    /\ column_names_of(tb_call.before) # <<>>
    /\ ColumnsGiven(tb_call.arg) # Len(column_names_of(tb_call.before))
ColumnOfOtherLength ==
    /\ TbReturned("setitem")
    /\ tb_call.arg.key # tb_call.before._index_name
    /\ \A i \in 1..Len(tb_call.arg.value.list) : IsNum(tb_call.arg.value.list[i])
    /\ tb_call.before._index # None
    /\ Len(tb_call.arg.value.list) # len(tb_call.before._index[1])
DictionaryOfUnequalColumns ==
    /\ TbReturned("FloatTable")
    /\ tb_call.arg.raw_data # None
    /\ IsDict(tb_call.arg.raw_data[1])
    /\ \E i, j \in 1..Len(tb_call.arg.raw_data[1].dict) :
          Len(tb_call.arg.raw_data[1].dict[i].val.list)
            # Len(tb_call.arg.raw_data[1].dict[j].val.list)
SizeInconsistent ==
    \/ IndexOfOtherLength
    \/ DataOfOtherWidth
    \/ ColumnOfOtherLength
    \/ DictionaryOfUnequalColumns

\* C19: every FloatTable operation given data of a size inconsistent with
\* what the table already defines (an index of another length, data of
\* another column count, a column of another length than the index, a
\* dictionary of columns of different lengths) raises a ValueError.
C19_SizeMismatchIsValueError ==
    SizeInconsistent => (tb_ret.tag # "ok" /\ IsInstance(tb_ret.tag, "ValueError"))

\* the values the column called name holds in the table t: the column of the
\* data at the place of the name among the names
ValuesHeld(t, name) ==
    LET names == column_names_of(t)
        p == CHOOSE i \in 1..Len(names) : names[i] = name
        m == t._data[1].shape[2]
    IN  Array1([i \in 1..t._data[1].shape[1] |-> t._data[1].flat[(i - 1) * m + p]])
\* C20: popitem removes and returns the column added last among those that
\* remain, as the pair of its name and the values it held, also after
\* earlier deletions and pops; on a table without columns it raises KeyError.
C20_PopitemIsLifoOrKeyError ==
    TbReturned("popitem") =>
        IF column_names_of(tb_call.before) = <<>>
        THEN tb_ret.tag # "ok" /\ IsInstance(tb_ret.tag, "KeyError")
        ELSE /\ tb_ret = Ok(<<Last(tb_call.added),
                              ValuesHeld(tb_call.before, Last(tb_call.added))>>)
             /\ column_names_of(table)
                  = SubSeq(tb_call.added, 1, Len(tb_call.added) - 1)
             /\ \A i \in 1..Len(column_names_of(table)) :
                   ValuesHeld(table, column_names_of(table)[i])
                     = ValuesHeld(tb_call.before, column_names_of(table)[i])

(***************************************************************************)
(* Further properties of response_spectrum and cumulative_integral         *)
(***************************************************************************)
\* C23: in the fft solver the peak of every oscillator frequency is taken
\* only over the upsampled response samples that fall within the original,
\* un-padded signal length (multiplier samples for each sample of the
\* signal); the samples of the zero-padded tail never decide a spectral value.
C23_FftPeakWithinOriginalLength ==
    (SpReturned("rs") /\ ret.tag = "ok") =>
        \A k \in 1..Len(ret.rs) :
            ret.rs[k].solver = "fft" =>
                ret.rs[k].samples <= multiplier * args.n_acc

\* C24: with method trapezoidal and an explicit x, every successive increment
\* of the result is the pairwise trapezoid over the actual abscissa,
\* result[i+1] - result[i] = (x[i+1] - x[i]) * (y[i] + y[i+1]) / 2, also when
\* x is slightly non-uniform (spacings whose standard deviation is at most
\* 2% of their mean).
C24_TrapezoidalOverActualAbscissa ==
    (/\ CiArray
     /\ ci_in.method = "trapezoidal"
     /\ ci_in.x # None)
    => \A i \in 1..(Len(ci_out.val) - 1) :
          QSub(ci_out.val[i + 1], ci_out.val[i])
            = QNorm((ci_in.x[1][i + 1] - ci_in.x[1][i])
                      * (ci_in.y[i] + ci_in.y[i + 1]), 2)

\* the whole numbers x are equally spaced
EquallySpaced(x) ==
    \A i \in 1..(Len(x) - 2) : x[i + 2] - x[i + 1] = x[i + 1] - x[i]

\* C25: simpson 3/8 is downgraded only for a y of 2 or 3 samples: for every
\* y of 4 or more equally spaced samples (no x, or an equally spaced x of
\* the length of y) cumulative_integral with method simpson 3/8 applies the
\* 3/8 rule and returns an array, it does not fail.
C25_Simpson38FromFourSamples ==
    (/\ CiReturned
     /\ ci_in.method = "simpson 3/8"
     /\ Len(ci_in.y) >= 4
     /\ \/ ci_in.x = None
        \/ /\ Len(ci_in.x[1]) = Len(ci_in.y)
           /\ EquallySpaced(ci_in.x[1])
           /\ ci_in.x[1][2] > ci_in.x[1][1])
    => /\ ci_out.tag = "ok"
       /\ Len(ci_out.val) = Len(ci_in.y)

(***************************************************************************)
(* Further properties of FloatTable                                        *)
(***************************************************************************)
\* C26: after any sequence of successful operations on a FloatTable
\* (construction, setting data, index or column_names, column assignment,
\* deletion, pop, popitem, reset_index), whenever the data is defined the
\* number of column names equals the number of data columns, the length of
\* the index equals the number of data rows, and every column name maps to
\* a data column of its own.
C26_ShapeInvariant ==
    (tb_clean /\ table._data # None) =>
        /\ Len(column_names_of(table)) = table._data[1].shape[2]
        /\ table._index # None
        /\ len(table._index[1]) = table._data[1].shape[1]
        /\ \A i \in 1..Len(table._column_dict) :
              table._column_dict[i].val \in 0..(table._data[1].shape[2] - 1)
        /\ \A i, j \in 1..Len(table._column_dict) :
              i # j => table._column_dict[i].val # table._column_dict[j].val

\* C27: whether the construction of a FloatTable accepts its column names
\* depends on the arguments of that call only (a name is rejected only when
\* it is 'Index' or the index_name of the call): the call returns or raises
\* what it does when no table was constructed before it.
C27_NameValidationIsPerCall ==
    TbReturned("FloatTable") =>
        tb_ret = __init__({"Index"}, tb_call.arg.raw_data, tb_call.arg.index,
                          tb_call.arg.column_names, tb_call.arg.index_name).r

\* C28: a column assignment that raises leaves the table as it was: the
\* index, the column names and the data are those of before the call.
C28_FailedAssignmentLeavesTable ==
    (TbReturned("setitem") /\ tb_ret.tag # "ok") => table = tb_call.before

(***************************************************************************)
(* Properties of MotionHistory                                             *)
(***************************************************************************)
MhReturned(op) == mh_call.op = op
MotionNames == {"acceleration", "velocity", "displacement"}
\* the stored column of the quantity name
ColumnOf(m, name) == __getitem__(m._table, name).val
AllNan(a) == \A i \in 1..len(a) : isnan(a.flat[i])
\* the first quantity the constructor was given, in the order acceleration,
\* velocity, displacement
FirstGiven(arg) ==
    IF arg.acceleration # None THEN Some("acceleration")
    ELSE IF arg.velocity # None THEN Some("velocity")
    ELSE IF arg.displacement # None THEN Some("displacement")
    ELSE None
\* the object holds the array value as the quantity name, and nothing else
HoldsOnly(m, name, value) ==
    /\ m._last_updated = Some(name)
    /\ ColumnOf(m, name) = value
    /\ \A other \in MotionNames \ {name} : AllNan(ColumnOf(m, other))

\* C21: a MotionHistory holds at most one explicitly defined motion
\* quantity.  Right after acceleration, velocity or displacement is set, the
\* two other stored columns are nan throughout and _last_updated names the
\* quantity just set; of several quantities given to the constructor only
\* the first in the order acceleration, velocity, displacement is stored.
C21_OneExplicitQuantity ==
    /\ \A name \in MotionNames :
          (MhReturned("set " \o name) /\ mh_ret.tag = "ok") =>
              HoldsOnly(mh[1], name, mh_call.arg)
    /\ (MhReturned("MotionHistory") /\ mh_ret.tag = "ok") =>
          IF FirstGiven(mh_call.arg) = None
          THEN /\ mh[1]._last_updated = None
               /\ \A name \in MotionNames : AllNan(ColumnOf(mh[1], name))
          ELSE HoldsOnly(mh[1], FirstGiven(mh_call.arg)[1],
                         mh_call.arg[FirstGiven(mh_call.arg)[1]][1])

\* the velocity is set on an object that held an acceleration and a
\* displacement derived from it
C21_Witness ==
    /\ MhReturned("set velocity")
    /\ mh_ret.tag = "ok"
    /\ len(mh_call.arg) = 3
    /\ mh_call.before[1]._last_updated = Some("acceleration")
    /\ mh_call.before[1]._table._data # None
    /\ ~isnan(ColumnOf(mh_call.before[1], "acceleration").flat[1])
    /\ ~isnan(ColumnOf(mh_call.before[1], "displacement").flat[2])

\* the time index and the three motion columns have the same length
SameLength(m) ==
    /\ \A name \in MotionNames : len(ColumnOf(m, name)) = shape(m._table)[1]
    /\ m._table._data # None =>
          /\ m._table._index # None
          /\ m._table._data[1].shape = <<len(m._table._index[1]), 3>>
\* the call assigns a time or a motion array of another length than the one
\* the object has already defined
OtherLengthAssigned ==
    \/ /\ \/ MhReturned("time")
          \/ \E name \in MotionNames : MhReturned("set " \o name)
       /\ mh_call.before[1]._table._index # None
       /\ len(mh_call.arg) # len(mh_call.before[1]._table._index[1])
    \/ /\ MhReturned("MotionHistory")
       /\ FirstGiven(mh_call.arg) # None
       /\ mh_call.arg.time # None
       /\ len(mh_call.arg[FirstGiven(mh_call.arg)[1]][1]) > 0
       /\ len(mh_call.arg.time[1]) # len(mh_call.arg[FirstGiven(mh_call.arg)[1]][1])
\* dt is supplied, to the constructor or to time_from_dt without npts, and no
\* motion quantity is defined
DtWithoutMotion ==
    \/ /\ MhReturned("MotionHistory")
       /\ mh_call.arg.dt # None
       /\ FirstGiven(mh_call.arg) = None
    \/ /\ MhReturned("time_from_dt")
       /\ mh_call.arg.npts = None
       /\ mh_call.before[1]._last_updated = None
\* dt is supplied, to the constructor or to time_from_dt without npts, and
\* neither a time nor a motion quantity is defined: the table has no rows
DtWithoutRows ==
    \/ /\ MhReturned("MotionHistory")
       /\ mh_call.arg.dt # None
       /\ mh_call.arg.time = None
       /\ FirstGiven(mh_call.arg) = None
    \/ /\ MhReturned("time_from_dt")
       /\ mh_call.arg.npts = None
       /\ shape(mh_call.before[1]._table)[1] = 0

Read == \E name \in MotionNames : MhReturned(name)

\* C29: every read of acceleration, velocity or displacement ends after at
\* most two derivation steps from the explicitly set quantity, after any
\* sequence of setter and reset calls, reset(skip_columns=("time",)) and a
\* source array that starts with nan included; the getters never call each
\* other in a cycle.
C29_ReadsEndWithinTwoDerivations ==
    Read => (mh_ret.tag # "RecursionError" /\ mh_call.steps <= 2)

\* the object m with every column but the explicitly set one forgotten
Fresh(m) ==
    IF m._table._data = None THEN m
    ELSE [m EXCEPT !._table = [@ EXCEPT !._data = Some([@[1] EXCEPT !.flat =
             [k \in 1..Len(@) |->
                 IF /\ m._last_updated # None
                    /\ (k - 1) % 3 = Lookup(m._table._column_dict, m._last_updated[1])
                 THEN @[k]
                 ELSE nan]])]]
\* what the getter of name gives on the object m
Getter(m, name) ==
    IF name = "acceleration" THEN acceleration(m, RecursionLimit).r
    ELSE IF name = "velocity" THEN velocity(m, RecursionLimit).r
    ELSE displacement(m, RecursionLimit).r

\* C30: what a getter returns is always the derivation from the explicit
\* quantity stored now and the time index of now: it is what the getter
\* gives when no derived column is stored, also after the time was changed
\* since the quantity was last read.
C30_DerivedFromCurrentTime ==
    \A name \in MotionNames :
        MhReturned(name) => mh_ret = Getter(Fresh(mh_call.before[1]), name)

=============================================================================
